---------------------------- MODULE Spec2Model ----------------------------
(***************************************************************************)
(* Two-level bounding volume hierarchy of yocto_bvh.h: shape BVHs over     *)
(* points, lines and triangles, a scene BVH over transformed shape BVHs,   *)
(* the recursive builder, refit, and the stack walkers for ray and         *)
(* closest-point queries.                                                  *)
(*                                                                         *)
(* A C++ float is modelled as an exact rational <<n, d>> (d > 0, lowest    *)
(* terms); rounding is not modelled.  Arrays keep the 0-based indices of   *)
(* the source and are functions over 0 .. n-1.  A distance is held as its  *)
(* square (sqrtf is strictly increasing on the non-negative reals, so      *)
(* every comparison of the code is decided exactly on the squares).        *)
(***************************************************************************)
EXTENDS Integers, Sequences, FiniteSets, TLC

(***************************************************************************)
(* float arithmetic                                                        *)
(***************************************************************************)
Abs(x) == IF x < 0 THEN -x ELSE x

RECURSIVE Gcd(_, _)
Gcd(a, b) == IF b = 0 THEN a ELSE Gcd(b, a % b)

Norm(n, d) ==
    IF d = 1 THEN <<n, 1>>
    ELSE LET g == Gcd(Abs(n), Abs(d))
             s == IF d < 0 THEN -1 ELSE 1
         IN  <<(s * n) \div g, (s * d) \div g>>

F(i) == <<i, 1>>
FAdd(a, b) == IF a[2] = 1 /\ b[2] = 1 THEN <<a[1] + b[1], 1>>
              ELSE Norm(a[1] * b[2] + b[1] * a[2], a[2] * b[2])
FNeg(a) == <<-a[1], a[2]>>
FSub(a, b) == FAdd(a, FNeg(b))
FMul(a, b) == IF a[2] = 1 /\ b[2] = 1 THEN <<a[1] * b[1], 1>>
              ELSE Norm(a[1] * b[1], a[2] * b[2])
\* a / b for b # 0 (the callers guard or exclude the zero divisor)
FDiv(a, b) == Norm(a[1] * b[2], a[2] * b[1])
FLt(a, b) == a[1] * b[2] < b[1] * a[2]
FLe(a, b) == a[1] * b[2] <= b[1] * a[2]
FGt(a, b) == FLt(b, a)
FGe(a, b) == FLe(b, a)
FMin(a, b) == IF FLt(b, a) THEN b ELSE a
FMax(a, b) == IF FLt(a, b) THEN b ELSE a
FZero == F(0)
FOne == F(1)

(***************************************************************************)
(* yocto_math.h collaborators: 3-vectors, ranges, affine transforms        *)
(***************************************************************************)
V(x, y, z) == <<F(x), F(y), F(z)>>
VAdd(a, b) == <<FAdd(a[1], b[1]), FAdd(a[2], b[2]), FAdd(a[3], b[3])>>
VSub(a, b) == <<FSub(a[1], b[1]), FSub(a[2], b[2]), FSub(a[3], b[3])>>
VScale(a, s) == <<FMul(a[1], s), FMul(a[2], s), FMul(a[3], s)>>
ym_dot(a, b) == FAdd(FAdd(FMul(a[1], b[1]), FMul(a[2], b[2])), FMul(a[3], b[3]))
ym_cross(a, b) ==
    <<FSub(FMul(a[2], b[3]), FMul(a[3], b[2])),
      FSub(FMul(a[3], b[1]), FMul(a[1], b[3])),
      FSub(FMul(a[1], b[2]), FMul(a[2], b[1]))>>
ym_distsqr(a, b) == LET LengthSqr(d) == ym_dot(d, d) IN LengthSqr(VSub(a, b))
ym_clamp01(x) == FMin(FMax(x, FZero), FOne)
\* a * (1 - t) + b * t
ym_lerp(a, b, t) == FAdd(FMul(a, FSub(FOne, t)), FMul(b, t))
ym_lerp3(a, b, t) == VAdd(VScale(a, FSub(FOne, t)), VScale(b, t))
\* a * (1 - u - v) + b * u + c * v
ym_blerp(a, b, c, u, v) ==
    FAdd(FAdd(FMul(a, FSub(FSub(FOne, u), v)), FMul(b, u)), FMul(c, v))
ym_blerp3(a, b, c, u, v) ==
    VAdd(VAdd(VScale(a, FSub(FSub(FOne, u), v)), VScale(b, u)), VScale(c, v))

\* the empty range (min = +max float, max = -max float): identity of rexpand
ym_invalid_range3f == [valid |-> FALSE]
Range(lo, hi) == [valid |-> TRUE, min |-> lo, max |-> hi]
ym_rexpand_pt(r, p) ==
    IF ~r.valid THEN Range(p, p)
    ELSE Range(<<FMin(r.min[1], p[1]), FMin(r.min[2], p[2]), FMin(r.min[3], p[3])>>,
               <<FMax(r.max[1], p[1]), FMax(r.max[2], p[2]), FMax(r.max[3], p[3])>>)
ym_rexpand(r, b) ==
    IF ~b.valid THEN r ELSE ym_rexpand_pt(ym_rexpand_pt(r, b.min), b.max)
ym_rsize(r) == VSub(r.max, r.min)
ym_rcenter(r) == VScale(VAdd(r.min, r.max), <<1, 2>>)

\* affine transform: linear part m (rows) and translation t
Affine(m, t) == [m |-> m, t |-> t]
ym_identity_affine3f ==
    Affine(<<V(1, 0, 0), V(0, 1, 0), V(0, 0, 1)>>, V(0, 0, 0))
ym_transform_vector(a, v) == <<ym_dot(a.m[1], v), ym_dot(a.m[2], v), ym_dot(a.m[3], v)>>
ym_transform_point(a, p) == VAdd(ym_transform_vector(a, p), a.t)
MatDet(m) == ym_dot(m[1], ym_cross(m[2], m[3]))
\* inverse of an invertible affine map: (m^-1, -m^-1 t), m^-1 = adj(m) / det(m)
ym_inverse(a) ==
    LET WithLinear(inv) ==
            Affine(inv, VSub(V(0, 0, 0), ym_transform_vector(Affine(inv, V(0, 0, 0)), a.t)))
        Adjugate(det, c1, c2, c3) ==
            WithLinear(<<<<FDiv(c1[1], det), FDiv(c2[1], det), FDiv(c3[1], det)>>,
                         <<FDiv(c1[2], det), FDiv(c2[2], det), FDiv(c3[2], det)>>,
                         <<FDiv(c1[3], det), FDiv(c2[3], det), FDiv(c3[3], det)>>>>)
    IN  Adjugate(MatDet(a.m), ym_cross(a.m[2], a.m[3]), ym_cross(a.m[3], a.m[1]),
                 ym_cross(a.m[1], a.m[2]))

\* an array given by its elements, held element by element (as std::vector holds it)
Array(f) == f @@ <<>>

(***************************************************************************)
(* BVH build                                                               *)
(***************************************************************************)
\* number of primitives to avoid splitting on
YB__BVH_MINPRIMS == 4

yb_etype_point == 1
yb_etype_line == 2
yb_etype_triangle == 3
yb__ntype_bvh == 9

yb_htype_default == 0
yb_htype_equalnum == 1
yb_htype_sah == 2

\* a node as std::vector::resize value-initialises it
FreshNode == [bbox |-> ym_invalid_range3f, start |-> 0, count |-> 0,
              isleaf |-> FALSE, axis |-> 0]

\* (&p.center.x)[axis]
CenterAt(p, axis) == p.center[axis + 1]

\* Op applied to the value of v (v is computed once, before the call)
Then(v, Op(_)) == CHOOSE r \in {Op(x) : x \in {v}} : TRUE

\* x after k rounds of Op: the body of a loop run k times
RECURSIVE Iterate(_, _, _)
Iterate(Op(_), x, k) ==
    IF k <= 0 THEN x
    ELSE IF k = 1 THEN Op(x)
    ELSE Then(Iterate(Op, x, k \div 2), LAMBDA y : Iterate(Op, y, k - k \div 2))

\* a sift-down that looks at the left child only
RECURSIVE SiftLeftOnly(_, _, _, _, _, _)
SiftLeftOnly(arr, base, n, index, t, axis) ==
    LET child == index * 2 + 1 IN
    IF child < n /\ FGt(CenterAt(arr[base + child], axis), CenterAt(t, axis))
    THEN Then([arr EXCEPT ![base + index] = arr[base + child]],
              LAMBDA moved : SiftLeftOnly(moved, base, n, child, t, axis))
    ELSE [arr EXCEPT ![base + index] = t]

\* the sift-down loop of the heap sort and the store arr[index] = t after it
RECURSIVE SiftDown(_, _, _, _, _, _)
SiftDown(arr, base, n, index, t, axis) ==
    LET child == index * 2 + 1 IN
    IF child < n
    THEN LET c == IF child + 1 < n /\
                     FGt(CenterAt(arr[base + child + 1], axis),
                         CenterAt(arr[base + child], axis))
                  THEN child + 1 ELSE child
         IN  IF FGt(CenterAt(arr[base + c], axis), CenterAt(t, axis))
             THEN Then([arr EXCEPT ![base + index] = arr[base + c]],
                       LAMBDA moved : SiftDown(moved, base, n, c, t, axis))
             ELSE [arr EXCEPT ![base + index] = t]
    ELSE [arr EXCEPT ![base + index] = t]

\* one round of the while (true) loop of the heap sort that does not return:
\* heapify while parent > 0, then pop the largest to slot n - 1; h = [arr, n, parent]
HeapRound(h, base, axis) ==
    IF h.parent > 0
    THEN [arr |-> SiftDown(h.arr, base, h.n, h.parent - 1, h.arr[base + h.parent - 1], axis),
          n |-> h.n, parent |-> h.parent - 1]
    ELSE [arr |-> SiftDown([h.arr EXCEPT ![base + h.n - 1] = h.arr[base]],
                           base, h.n - 1, 0, h.arr[base + h.n - 1], axis),
          n |-> h.n - 1, parent |-> 0]

\* the while (true) loop: count / 2 rounds of heapify and count - 1 pops, then the
\* round that finds n = 0 returns
HeapLoop(arr, base, count, axis) ==
    Iterate(LAMBDA h : HeapRound(h, base, axis),
            [arr |-> arr, n |-> count, parent |-> count \div 2],
            count \div 2 + count - 1).arr

\* a sort that drops the record it holds aside: the last record is overwritten
HeapsortLosing(arr, base, count, axis) ==
    IF count = 0 THEN arr
    ELSE [HeapLoop(arr, base, count, axis) EXCEPT ![base + count - 1] = arr[base]]

\* yb__heapsort_bound_prim(arr + base, count, axis)
yb__heapsort_bound_prim(arr, base, count, axis) ==
    IF count = 0 THEN arr ELSE HeapLoop(arr, base, count, axis)

\* a sort of the first count records of the whole array instead of those at base
SortFromZero(arr, base, count, axis) ==
    yb__heapsort_bound_prim(arr, 0, count, axis)

\* #define yb__sort_bound_prim yb__heapsort_bound_prim
yb__sort_bound_prim(arr, base, count, axis) ==
    yb__heapsort_bound_prim(arr, base, count, axis)

\* sbbox_size.x * sbbox_size.y + sbbox_size.x * sbbox_size.z + sbbox_size.y * sbbox_size.z
HalfArea(r) ==
    LET Area(s) == FAdd(FAdd(FMul(s[1], s[2]), FMul(s[1], s[3])), FMul(s[2], s[3]))
    IN  Area(ym_rsize(r))

\* hull of the bboxes of arr[lo .. hi-1]
HullOf(arr, lo, hi) ==
    Iterate(LAMBDA s : [bbox |-> ym_rexpand(s.bbox, arr[s.i].bbox), i |-> s.i + 1],
            [bbox |-> ym_invalid_range3f, i |-> lo], hi - lo).bbox

\* hull of the centers of arr[lo .. hi-1]
CenterHull(arr, lo, hi) ==
    Iterate(LAMBDA s : [bbox |-> ym_rexpand_pt(s.bbox, arr[s.i].center), i |-> s.i + 1],
            [bbox |-> ym_invalid_range3f, i |-> lo], hi - lo).bbox

\* sorted_prim[i].sah_cost_left after the first sweep: area of the prefix times i + 1
SahCostLeft(arr, start, i) ==
    FMul(HalfArea(HullOf(arr, start, start + i + 1)), F(i + 1))

\* sorted_prim[end - 1 - i].sah_cost_right after the other sweep
SahCostRight(arr, end, i) ==
    FMul(HalfArea(HullOf(arr, end - 1 - i, end)), F(i + 1))

\* one round of the "find the minimum cost" loop; s = [found, cost, axis, mid, i]
\* (found is false while min_cost is still HUGE_VALF)
SahScanRound(s, arr, start, end, a) ==
    LET Keep(cost) ==
            IF ~s.found \/ FGt(s.cost, cost)
            THEN [found |-> TRUE, cost |-> cost, axis |-> a, mid |-> s.i, i |-> s.i + 1]
            ELSE [s EXCEPT !.i = s.i + 1]
    IN  Keep(FAdd(SahCostLeft(arr, start, s.i - 1 - start),
                  SahCostRight(arr, end, end - 1 - s.i)))

\* a scan of the split positions from start + 1 to end - 1
SahScanAllSplits(arr, start, end, a, best) ==
    Iterate(LAMBDA s : SahScanRound(s, arr, start, end, a),
            [best EXCEPT !.i = start + 1], end - start - 1)

\* for (i = start + 2; i <= end - 2; i++)
SahScan(arr, start, end, a, best) ==
    Iterate(LAMBDA s : SahScanRound(s, arr, start, end, a),
            [best EXCEPT !.i = start + 2], end - start - 3)

\* one round of the for (a = 0; a < 3; a++) loop; s = [arr, a, best]
SahAxisRound(s, start, end) ==
    Then(yb__sort_bound_prim(s.arr, start, end - start, s.a), LAMBDA sorted :
         [arr |-> sorted, a |-> s.a + 1, best |-> SahScan(sorted, start, end, s.a, s.best)])

\* the SAH case: the array as the last sort left it, the best axis and mid
SahAxes(arr, start, end) ==
    LET Best(s) == [arr |-> s.arr, axis |-> s.best.axis, mid |-> s.best.mid]
    IN  Best(Iterate(LAMBDA r : SahAxisRound(r, start, end),
                     [arr |-> arr, a |-> 0,
                      best |-> [found |-> FALSE, cost |-> FZero, axis |-> -1, mid |-> -1,
                                i |-> 0]],
                     3))

\* the equalnum case: largest axis of the hull of the centers, mid in the middle
EqualnumSplit(arr, start, end) ==
    LET Largest(size) ==
            IF FGe(size[1], size[2]) /\ FGe(size[1], size[3]) THEN 0
            ELSE IF FGe(size[2], size[1]) /\ FGe(size[2], size[3]) THEN 1
            ELSE 2
    IN  [arr |-> arr, axis |-> Largest(ym_rsize(CenterHull(arr, start, end))),
         mid |-> (start + end) \div 2]

\* yb__split_axis: the array as the sorts left it, *axis and *mid
yb__split_axis(arr, start, end, heuristic) ==
    IF heuristic = yb_htype_equalnum
    THEN EqualnumSplit(arr, start, end)
    ELSE SahAxes(arr, start, end)

\* a bound that misses the last record of the range
NodeBoundsSkipLast(prims, start, end) ==
    HullOf(prims, start, IF end - start > 1 THEN end - 1 ELSE end)

\* "compute node bounds": the hull of the records in [start, end)
NodeBounds(prims, start, end) == HullOf(prims, start, end)

\* the fields yb__make_node gives a leaf node (axis is left as it was)
LeafNode(old, bbox, start, end) ==
    [old EXCEPT !.bbox = bbox, !.isleaf = TRUE, !.start = start, !.count = end - start]

\* an internal node that points one slot before its children
InternalNodeOffByOne(bbox, axis, first) ==
    [bbox |-> bbox, isleaf |-> FALSE, axis |-> axis, start |-> first - 1, count |-> 2]

\* the fields yb__make_node gives an internal node whose children are at first, first + 1
InternalNode(bbox, axis, first) ==
    [bbox |-> bbox, isleaf |-> FALSE, axis |-> axis, start |-> first, count |-> 2]

\* one call of yb__make_node on node slot ni: the node is written and, for an
\* internal node, the two recursive calls are put first among the pending calls;
\* b = [nodes, nnodes, prims, calls, wild]; a leaf written to a slot the vector does
\* not have is a write outside the array (wild)
yb__make_node(b, ni, start, end, heuristic) ==
    IF end - start <= YB__BVH_MINPRIMS
    THEN IF ni \in DOMAIN b.nodes
         THEN [b EXCEPT !.nodes[ni] =
                            LeafNode(@, NodeBounds(b.prims, start, end), start, end)]
         ELSE [b EXCEPT !.wild = TRUE]
    ELSE Then(yb__split_axis(b.prims, start, end, heuristic), LAMBDA sp :
         Then(yb__sort_bound_prim(sp.arr, start, end - start, sp.axis), LAMBDA sorted :
              [nodes |-> [b.nodes EXCEPT ![ni] =
                             InternalNode(NodeBounds(b.prims, start, end), sp.axis, b.nnodes)],
               nnodes |-> b.nnodes + 2,
               prims |-> sorted,
               calls |-> <<[ni |-> b.nnodes, start |-> start, end |-> sp.mid],
                           [ni |-> b.nnodes + 1, start |-> sp.mid, end |-> end]>>
                         \o b.calls,
               wild |-> b.wild]))

\* the next pending call of yb__make_node, if there is one
MakeNodeRound(b, heuristic) ==
    IF b.calls = <<>> THEN b
    ELSE LET c == Head(b.calls)
         IN  yb__make_node([b EXCEPT !.calls = Tail(b.calls)], c.ni, c.start, c.end,
                           heuristic)

\* bvh->nodes.resize(n * 2): old slots keep their content, new ones are fresh
ResizeNodes(old, n) ==
    Array([i \in 0 .. n - 1 |-> IF i \in DOMAIN old THEN old[i] ELSE FreshNode])

\* a build that goes on counting the nodes from those the vector held
BuildTreeCountingOn(oldnodes, prims, n, heuristic) ==
    Then(Iterate(LAMBDA b : MakeNodeRound(b, heuristic),
                 [nodes |-> ResizeNodes(oldnodes, n * 2),
                  nnodes |-> IF oldnodes = <<>> THEN 1 ELSE Cardinality(DOMAIN oldnodes),
                  prims |-> prims,
                  calls |-> <<[ni |-> 0, start |-> 0, end |-> n]>>, wild |-> FALSE],
                 IF n = 0 THEN 1 ELSE 2 * n),
         LAMBDA b : [nodes |-> ResizeNodes(b.nodes, b.nnodes),
                     sorted_prim |-> Array([i \in 0 .. n - 1 |-> b.prims[i].pid]),
                     wild |-> b.wild])

\* allocate 2 n nodes, yb__make_node from node 0 over [0, n) (one call per node, so
\* at most 2 n calls, and one call when n = 0), resize to nnodes (a slot the vector
\* did not have is fresh); sorted_prim takes the pids in their order
BuildTree(oldnodes, prims, n, heuristic) ==
    Then(Iterate(LAMBDA b : MakeNodeRound(b, heuristic),
                 [nodes |-> ResizeNodes(oldnodes, n * 2), nnodes |-> 1, prims |-> prims,
                  calls |-> <<[ni |-> 0, start |-> 0, end |-> n]>>, wild |-> FALSE],
                 IF n = 0 THEN 1 ELSE 2 * n),
         LAMBDA b : [nodes |-> ResizeNodes(b.nodes, b.nnodes),
                     sorted_prim |-> Array([i \in 0 .. n - 1 |-> b.prims[i].pid]),
                     wild |-> b.wild])

\* ym_vec3f(r): the radius on each axis
Splat(r) == <<r, r, r>>

\* (bvh->radius) ? bvh->radius[f] : 0
RadiusOrZero(bvh, f) == IF bvh.radius.null THEN FZero ELSE bvh.radius.at[f]

\* bounds of element i of a shape: fat points, thick rods, triangle vertices
ElemBounds(bvh, i) ==
    LET f == bvh.elem[i]
        fat(v) == LET r == RadiusOrZero(bvh, v)
                  IN  Range(VSub(bvh.pos[v], Splat(r)), VAdd(bvh.pos[v], Splat(r)))
    IN  IF bvh.etype = yb_etype_point THEN ym_rexpand(ym_invalid_range3f, fat(f[1]))
        ELSE IF bvh.etype = yb_etype_line
             THEN ym_rexpand(ym_rexpand(ym_invalid_range3f, fat(f[1])), fat(f[2]))
        ELSE ym_rexpand_pt(ym_rexpand_pt(ym_rexpand_pt(ym_invalid_range3f,
                 bvh.pos[f[1]]), bvh.pos[f[2]]), bvh.pos[f[3]])

BoundPrim(pid, bbox) == [bbox |-> bbox, center |-> ym_rcenter(bbox), pid |-> pid]

\* yb_init_shape_bvh: the shape, not built (no nodes, no sorted_prim)
yb_init_shape_bvh(nelems, elem, etype, pos, radius, heuristic) ==
    [null |-> FALSE,
     nelems |-> nelems, etype |-> etype, elem |-> elem, ntype |-> etype,
     pos |-> pos, radius |-> radius, heuristic |-> heuristic,
     nodes |-> <<>>, sorted_prim |-> <<>>]

\* yb_build_shape_bvh
yb_build_shape_bvh(bvh) ==
    Then(Array([i \in 0 .. bvh.nelems - 1 |-> BoundPrim(i, ElemBounds(bvh, i))]),
         LAMBDA bound_prims :
             Then(BuildTree(bvh.nodes, bound_prims, bvh.nelems, bvh.heuristic),
                  LAMBDA t : [bvh EXCEPT !.nodes = t.nodes, !.sorted_prim = t.sorted_prim]))

\* the eight corners of a bbox, in the order of the source
Corners(bbox) ==
    <<<<bbox.min[1], bbox.min[2], bbox.min[3]>>, <<bbox.min[1], bbox.min[2], bbox.max[3]>>,
      <<bbox.min[1], bbox.max[2], bbox.min[3]>>, <<bbox.min[1], bbox.max[2], bbox.max[3]>>,
      <<bbox.max[1], bbox.min[2], bbox.min[3]>>, <<bbox.max[1], bbox.min[2], bbox.max[3]>>,
      <<bbox.max[1], bbox.max[2], bbox.min[3]>>, <<bbox.max[1], bbox.max[2], bbox.max[3]>>>>

\* yb__transform_bbox: the hull of the eight corners transformed by a
yb__transform_bbox(a, bbox) ==
    Iterate(LAMBDA s : [bbox |-> ym_rexpand_pt(s.bbox,
                                     ym_transform_point(a, Corners(bbox)[s.j])),
                        j |-> s.j + 1],
            [bbox |-> ym_invalid_range3f, j |-> 1], 8).bbox

\* the leaf case of yb__recompute_scene_bounds: for every shape idx of the leaf,
\* the eight corners of bvh->shapes[0]->nodes[0].bbox transformed by xforms[idx]
\* expand the bbox (k counts the corners of all the shapes of the leaf)
RecomputeLeafBox(node, sprim, sh, xf) ==
    Iterate(LAMBDA s :
                [bbox |-> ym_rexpand_pt(s.bbox,
                              ym_transform_point(xf[sprim[node.start + (s.k \div 8)]],
                                                 Corners(sh[0].nodes[0].bbox)[(s.k % 8) + 1])),
                 k |-> s.k + 1],
            [bbox |-> ym_invalid_range3f, k |-> 0], node.count * 8).bbox

\* a recomputation that assigns the whole node, not only its bbox
RecomputeLeafReset(nds, nodeid, sprim, sh, xf) ==
    [nds EXCEPT ![nodeid] =
        [FreshNode EXCEPT !.bbox =
            RecomputeLeafBox(nds[nodeid], sprim, sh, xf)]]

\* node->bbox of a leaf after the recomputation
RecomputeLeaf(nds, nodeid, sprim, sh, xf) ==
    [nds EXCEPT ![nodeid].bbox =
        RecomputeLeafBox(nds[nodeid], sprim, sh, xf)]

\* yb__recompute_scene_bounds(bvh, nodeid): the scene nodes after the call
RECURSIVE yb__recompute_scene_bounds(_, _, _, _, _)
RECURSIVE RecomputeChildren(_, _, _, _, _, _)
RecomputeChildren(nds, nodeid, i, sprim, sh, xf) ==
    IF i >= nds[nodeid].count THEN nds
    ELSE Then(yb__recompute_scene_bounds(nds, nds[nodeid].start + i, sprim, sh, xf),
              LAMBDA done :
                  RecomputeChildren(
                      [done EXCEPT ![nodeid].bbox =
                          ym_rexpand(@, done[nds[nodeid].start + i].bbox)],
                      nodeid, i + 1, sprim, sh, xf))

yb__recompute_scene_bounds(nds, nodeid, sprim, sh, xf) ==
    IF nds[nodeid].isleaf
    THEN RecomputeLeaf(nds, nodeid, sprim, sh, xf)
    ELSE RecomputeChildren([nds EXCEPT ![nodeid].bbox = ym_invalid_range3f],
                           nodeid, 0, sprim, sh, xf)

(***************************************************************************)
(* Ray queries                                                             *)
(***************************************************************************)
yb__ntype_point == 1
yb__ntype_line == 2
yb__ntype_triangle == 3

\* number of slots of an array
Size(arr) == Cardinality(DOMAIN arr)

\* while (!Done(s)) s = Body(s), the rounds taken chunk at a time
RECURSIVE While(_, _, _, _)
While(Done(_), Body(_), s, chunk) ==
    IF Done(s) THEN s
    ELSE Then(Iterate(LAMBDA x : IF Done(x) THEN x ELSE Body(x), s, chunk),
              LAMBDA y : While(Done, Body, y, chunk))

\* ym_ray3f
Ray(o, d, tmin, tmax) == [o |-> o, d |-> d, tmin |-> tmin, tmax |-> tmax]

\* o + d * t
yb__eval_ray(o, d, t) == VAdd(o, VScale(d, t))

\* an element test that returned false: the out parameters are not written
Miss == [hit |-> FALSE]

\* yb__intersect_point: the ray parameter closest to p, if in range and within r of p
yb__intersect_point(ray, p, r) ==
    LET Test(t, prp) ==
            IF FLt(t, ray.tmin) \/ FGt(t, ray.tmax) THEN Miss
            ELSE IF FGt(ym_dot(prp, prp), FMul(r, r)) THEN Miss
            ELSE [hit |-> TRUE, t |-> t, euv |-> <<FZero, FZero>>]
        Closest(t) == Test(t, VSub(p, yb__eval_ray(ray.o, ray.d, t)))
    IN  Closest(FDiv(ym_dot(VSub(p, ray.o), ray.d), ym_dot(ray.d, ray.d)))

\* yb__intersect_line
yb__intersect_line(ray, v0, v1, r0, r1) ==
    LET Test(t, s, p01, r) ==
            IF FLt(t, ray.tmin) \/ FGt(t, ray.tmax) THEN Miss
            ELSE IF FGt(ym_dot(p01, p01), FMul(r, r)) THEN Miss
            ELSE [hit |-> TRUE, t |-> t, euv |-> <<s, FZero>>]
        Closest(v, t, s) ==
            Test(t, s, VSub(yb__eval_ray(ray.o, ray.d, t), yb__eval_ray(v0, v, s)),
                 FAdd(FMul(r0, FSub(FOne, s)), FMul(r1, s)))
        Solve(v, a, b, c, d, e, det) ==
            IF det = FZero THEN Miss
            ELSE Closest(v, FDiv(FSub(FMul(b, e), FMul(c, d)), det),
                         ym_clamp01(FDiv(FSub(FMul(a, e), FMul(b, d)), det)))
        Dots(v, a, b, c, d, e) == Solve(v, a, b, c, d, e, FSub(FMul(a, c), FMul(b, b)))
        Setup(u, v, w) ==
            Dots(v, ym_dot(u, u), ym_dot(u, v), ym_dot(v, v), ym_dot(u, w), ym_dot(v, w))
    IN  Setup(ray.d, VSub(v1, v0), VSub(ray.o, v0))

\* yb__intersect_triangle
yb__intersect_triangle(ray, v0, v1, v2) ==
    LET Test(u, v, t) ==
            IF FLt(u, FZero) \/ FGt(u, FOne) THEN Miss
            ELSE IF FLt(v, FZero) \/ FGt(FAdd(u, v), FOne) THEN Miss
            ELSE IF FLt(t, ray.tmin) \/ FGt(t, ray.tmax) THEN Miss
            ELSE [hit |-> TRUE, t |-> t, euv |-> <<u, v>>]
        Params(edge2, pvec, inv_det, tvec, qvec) ==
            Test(FMul(ym_dot(tvec, pvec), inv_det), FMul(ym_dot(ray.d, qvec), inv_det),
                 FMul(ym_dot(edge2, qvec), inv_det))
        Vectors(edge1, edge2, pvec, inv_det, tvec) ==
            Params(edge2, pvec, inv_det, tvec, ym_cross(tvec, edge1))
        Solve(edge1, edge2, pvec, det) ==
            IF det = FZero THEN Miss
            ELSE Vectors(edge1, edge2, pvec, FDiv(FOne, det), VSub(ray.o, v0))
        Det(edge1, edge2, pvec) == Solve(edge1, edge2, pvec, ym_dot(edge1, pvec))
        Edges(edge1, edge2) == Det(edge1, edge2, ym_cross(ray.d, edge2))
    IN  Edges(VSub(v1, v0), VSub(v2, v0))

\* one axis of the clipping loop of yb__intersect_check_bbox; c = [ok, tmin, tmax].
\* With ray.d[i] = 0 invd is +infinity: t0 and t1 are infinite or NaN, the range is
\* kept when the origin is between the planes (a comparison with NaN is false) and
\* emptied when it is outside.
ClipAxis(c, ray, bbox, i) ==
    IF ~c.ok THEN c
    ELSE IF ray.d[i] = FZero
    THEN IF FLt(ray.o[i], bbox.min[i]) \/ FGt(ray.o[i], bbox.max[i])
         THEN [c EXCEPT !.ok = FALSE]
         ELSE [c EXCEPT !.ok = ~FGt(c.tmin, c.tmax)]
    ELSE LET Clipped(tmin, tmax) == [ok |-> ~FGt(tmin, tmax), tmin |-> tmin, tmax |-> tmax]
             Clip(t0, t1) == Clipped(IF FGt(t0, c.tmin) THEN t0 ELSE c.tmin,
                                     IF FLt(t1, c.tmax) THEN t1 ELSE c.tmax)
             Planes(invd, a0, a1) == Clip(IF FLt(invd, FZero) THEN a1 ELSE a0,
                                          IF FLt(invd, FZero) THEN a0 ELSE a1)
             Slab(invd) == Planes(invd, FMul(FSub(bbox.min[i], ray.o[i]), invd),
                                  FMul(FSub(bbox.max[i], ray.o[i]), invd))
         IN  Slab(FDiv(FOne, ray.d[i]))

\* a bbox test that wants the ray to run inside the box: tmin < tmax after the
\* clipping, so a ray that only touches the box, or crosses a flat one, misses it
CheckBboxOpen(ray, bbox) ==
    LET Open(c) == c.ok /\ FLt(c.tmin, c.tmax)
    IN  bbox.valid /\
        Open(ClipAxis(ClipAxis(ClipAxis([ok |-> TRUE, tmin |-> ray.tmin, tmax |-> ray.tmax],
                                        ray, bbox, 1), ray, bbox, 2), ray, bbox, 3))

\* yb__intersect_check_bbox: the three axes in turn (the empty range has min > max
\* on every axis: no ray passes)
yb__intersect_check_bbox(ray, bbox) ==
    bbox.valid /\
    ClipAxis(ClipAxis(ClipAxis([ok |-> TRUE, tmin |-> ray.tmin, tmax |-> ray.tmax],
                               ray, bbox, 1), ray, bbox, 2), ray, bbox, 3).ok

\* the element test of a leaf of a shape BVH on element idx
IntersectElem(sbvh, ray, idx) ==
    LET f == sbvh.elem[idx] IN
    IF sbvh.ntype = yb__ntype_point
    THEN yb__intersect_point(ray, sbvh.pos[f[1]], sbvh.radius.at[f[1]])
    ELSE IF sbvh.ntype = yb__ntype_line
    THEN yb__intersect_line(ray, sbvh.pos[f[1]], sbvh.pos[f[2]],
                            sbvh.radius.at[f[1]], sbvh.radius.at[f[2]])
    ELSE yb__intersect_triangle(ray, sbvh.pos[f[1]], sbvh.pos[f[2]], sbvh.pos[f[3]])

\* a push of the children that pushes the last one twice
PushLastTwice(node, ray) ==
    [i \in 1 .. node.count + 1 |->
        IF i <= node.count THEN node.start + i - 1 ELSE node.start + node.count - 1]

\* the children of an internal node as they are pushed: start first when the ray
\* goes up the split axis, last when it goes down
PushOrder(node, ray) ==
    IF FGe(ray.d[node.axis + 1], FZero)
    THEN [i \in 1 .. node.count |-> node.start + i - 1]
    ELSE [i \in 1 .. node.count |-> node.start + node.count - i]

\* top of the node stack and the stack without it
Top(stack) == stack[Len(stack)]
Pop(stack) == SubSeq(stack, 1, Len(stack) - 1)

\* the walk of a scene runs the walk of a shape in its leaves
RECURSIVE yb__intersect_bvh(_, _, _, _)
RECURSIVE IntersectRound(_, _, _, _)

\* sbvh->radius[f] is evaluated for the elements of this shape though the array
\* is absent
ReadsAbsentRadius(sbvh) ==
    sbvh.ntype \in {yb__ntype_point, yb__ntype_line} /\ sbvh.radius.null

\* the loop over the primitives of a leaf; w = [stack, hit, tmax, sid, eid, euv,
\* fault] is the walk (tmax is ray.tmax, which the tests write through ray_t; fault
\* tells that an absent radius array was read)
IntersectLeaf(bvh, early_exit, ray_, node, w) ==
    LET Shape(s, idx, r) ==
            [w |-> [stack |-> s.w.stack, hit |-> s.w.hit \/ r.hit, tmax |-> r.t,
                    sid |-> IF r.hit THEN idx ELSE r.sid, eid |-> r.eid, euv |-> r.euv,
                    fault |-> s.w.fault \/ r.fault],
             i |-> s.i + 1]
        Elem(s, idx, r) ==
            [w |-> IF r.hit
                   THEN [s.w EXCEPT !.hit = TRUE, !.tmax = r.t, !.euv = r.euv, !.eid = idx,
                                    !.fault = @ \/ ReadsAbsentRadius(bvh)]
                   ELSE [s.w EXCEPT !.fault = @ \/ ReadsAbsentRadius(bvh)],
             i |-> s.i + 1]
        Prim(s, idx) ==
            IF bvh.ntype = yb__ntype_bvh
            THEN Shape(s, idx,
                       yb__intersect_bvh(bvh.shapes[idx], early_exit,
                           Ray(ym_transform_point(bvh.inv_xforms[idx], ray_.o),
                               ym_transform_vector(bvh.inv_xforms[idx], ray_.d),
                               ray_.tmin, s.w.tmax),
                           [t |-> s.w.tmax, sid |-> s.w.sid, eid |-> s.w.eid,
                            euv |-> s.w.euv]))
            ELSE Elem(s, idx, IntersectElem(bvh, [ray_ EXCEPT !.tmax = s.w.tmax], idx))
    IN  Iterate(LAMBDA s : Prim(s, bvh.sorted_prim[node.start + s.i]),
                [w |-> w, i |-> 0], node.count).w

\* one round of the walking loop: pop a node, test its bbox, push its children or
\* test its primitives
IntersectRound(bvh, early_exit, ray_, w) ==
    LET Visit(node, popped, ray) ==
            IF ~yb__intersect_check_bbox(ray, node.bbox) THEN popped
            ELSE IF ~node.isleaf
            THEN [popped EXCEPT !.stack = @ \o PushOrder(node, ray)]
            ELSE IntersectLeaf(bvh, early_exit, ray_, node, popped)
    IN  Visit(bvh.nodes[Top(w.stack)], [w EXCEPT !.stack = Pop(w.stack)],
              [ray_ EXCEPT !.tmax = w.tmax])

\* the locals of yb__intersect_bvh when the walking loop is entered
IntersectEnter(ray_, o) ==
    [stack |-> <<0>>, hit |-> FALSE, tmax |-> ray_.tmax,
     sid |-> o.sid, eid |-> o.eid, euv |-> o.euv, fault |-> FALSE]

\* !(node_cur && !(early_exit && hit))
IntersectDone(early_exit, w) == w.stack = <<>> \/ (early_exit /\ w.hit)

\* if (hit) *ray_t = ray.tmax; return hit
IntersectReturn(w, o) ==
    [hit |-> w.hit, t |-> IF w.hit THEN w.tmax ELSE o.t,
     sid |-> w.sid, eid |-> w.eid, euv |-> w.euv, fault |-> w.fault]

\* yb__intersect_bvh(bvh, early_exit, ray_, ray_t, sid, eid, euv): o holds what the
\* out parameters point to before the call; the result is hit and what they point to
\* after it
yb__intersect_bvh(bvh, early_exit, ray_, o) ==
    IntersectReturn(While(LAMBDA s : IntersectDone(early_exit, s),
                          LAMBDA s : IntersectRound(bvh, early_exit, ray_, s),
                          IntersectEnter(ray_, o),
                          Size(bvh.nodes)),
                    o)

\* yb_intersect_scene_bvh
yb_intersect_scene_bvh(bvh, ray, o) == yb__intersect_bvh(bvh, FALSE, ray, o)

\* what the locals of yb_hit_scene_bvh hold: never read, written on a hit
Locals == [t |-> FZero, sid |-> 0, eid |-> 0, euv |-> <<FZero, FZero>>]

\* an any-hit test that stops at the bbox of the root
HitRootBox(bvh, ray) == yb__intersect_check_bbox(ray, bvh.nodes[0].bbox)

\* yb_hit_scene_bvh
yb_hit_scene_bvh(bvh, ray) == yb__intersect_bvh(bvh, TRUE, ray, Locals).hit

(***************************************************************************)
(* Closest-element queries                                                 *)
(***************************************************************************)
\* a distance, held as its square; the unbounded max_dist is above every float
Unbounded == [inf |-> TRUE]
DistOfSquare(q) == [inf |-> FALSE, sq |-> q]

\* d2 > (dist_max + r) * (dist_max + r) for a radius r >= 0: with D = dist_max^2
\* it is d2 - D - r^2 > 2 r sqrt(D), decided on the squares
BeyondReach(d2, dist_max, r) ==
    IF dist_max.inf THEN FALSE
    ELSE LET Beyond(rest) ==
                 /\ FGt(rest, FZero)
                 /\ FGt(FMul(rest, rest), FMul(F(4), FMul(FMul(r, r), dist_max.sq)))
         IN  Beyond(FSub(FSub(d2, dist_max.sq), FMul(r, r)))

\* yb__distance_point: *dist = sqrtf(d2)
yb__distance_point(pos, dist_max, p, r) ==
    LET Test(d2) ==
            IF BeyondReach(d2, dist_max, r) THEN Miss
            ELSE [hit |-> TRUE, dist |-> DistOfSquare(d2), euv |-> <<FZero, FZero>>]
    IN  Test(ym_distsqr(pos, p))

\* yb__closestuv_line
yb__closestuv_line(pos, v0, v1) ==
    LET Project(ab) == ym_clamp01(FDiv(ym_dot(VSub(pos, v0), ab), ym_dot(ab, ab)))
    IN  Project(VSub(v1, v0))

\* yb__distance_line
yb__distance_line(pos, dist_max, v0, v1, r0, r1) ==
    LET Test(u, r, d2) ==
            IF BeyondReach(d2, dist_max, r) THEN Miss
            ELSE [hit |-> TRUE, dist |-> DistOfSquare(d2), euv |-> <<u, FZero>>]
        Closest(u) == Test(u, ym_lerp(r0, r1, u), ym_distsqr(pos, ym_lerp3(v0, v1, u)))
    IN  Closest(yb__closestuv_line(pos, v0, v1))

\* yb__closestuv_triangle
yb__closestuv_triangle(pos, v0, v1, v2) ==
    LET OnEdgeBC(w) == <<FSub(FOne, w), w>>
        Inside(vb, vc, denom) == <<FMul(vb, denom), FMul(vc, denom)>>
        Region(d1, d2, d3, d4, d5, d6, vc, vb, va) ==
            IF FLe(d1, FZero) /\ FLe(d2, FZero) THEN <<FZero, FZero>>
            ELSE IF FGe(d3, FZero) /\ FLe(d4, d3) THEN <<FOne, FZero>>
            ELSE IF FLe(vc, FZero) /\ FGe(d1, FZero) /\ FLe(d3, FZero)
            THEN <<FDiv(d1, FSub(d1, d3)), FZero>>
            ELSE IF FGe(d6, FZero) /\ FLe(d5, d6) THEN <<FZero, FOne>>
            ELSE IF FLe(vb, FZero) /\ FGe(d2, FZero) /\ FLe(d6, FZero)
            THEN <<FZero, FDiv(d2, FSub(d2, d6))>>
            ELSE IF FLe(va, FZero) /\ FGe(FSub(d4, d3), FZero) /\ FGe(FSub(d5, d6), FZero)
            THEN OnEdgeBC(FDiv(FSub(d4, d3), FAdd(FSub(d4, d3), FSub(d5, d6))))
            ELSE Inside(vb, vc, FDiv(FOne, FAdd(FAdd(va, vb), vc)))
        Dots(d1, d2, d3, d4, d5, d6) ==
            Region(d1, d2, d3, d4, d5, d6,
                   FSub(FMul(d1, d4), FMul(d3, d2)),
                   FSub(FMul(d5, d2), FMul(d1, d6)),
                   FSub(FMul(d3, d6), FMul(d5, d4)))
        Edges(ab, ac, ap, bp, cp) ==
            Dots(ym_dot(ab, ap), ym_dot(ac, ap), ym_dot(ab, bp), ym_dot(ac, bp),
                 ym_dot(ab, cp), ym_dot(ac, cp))
    IN  Edges(VSub(v1, v0), VSub(v2, v0), VSub(pos, v0), VSub(pos, v1), VSub(pos, v2))

\* yb__distance_triangle
yb__distance_triangle(pos, dist_max, v0, v1, v2, r0, r1, r2) ==
    LET Test(uv, r, dd) ==
            IF BeyondReach(dd, dist_max, r) THEN Miss
            ELSE [hit |-> TRUE, dist |-> DistOfSquare(dd), euv |-> uv]
        Closest(uv) ==
            Test(uv, ym_blerp(r0, r1, r2, uv[1], uv[2]),
                 ym_distsqr(ym_blerp3(v0, v1, v2, uv[1], uv[2]), pos))
    IN  Closest(yb__closestuv_triangle(pos, v0, v1, v2))

\* the excess of pos outside the planes of axis i, squared
AxisExcess(pos, bbox, i) ==
    LET Sqr(x) == FMul(x, x)
    IN  FAdd(IF FLt(pos[i], bbox.min[i]) THEN Sqr(FSub(bbox.min[i], pos[i])) ELSE FZero,
             IF FGt(pos[i], bbox.max[i]) THEN Sqr(FSub(pos[i], bbox.max[i])) ELSE FZero)

\* yb__distance_check_bbox: dd < dist_max * dist_max (the empty range is at an
\* infinite distance)
yb__distance_check_bbox(pos, dist_max, bbox) ==
    /\ bbox.valid
    /\ dist_max.inf \/
       FLt(FAdd(FAdd(AxisExcess(pos, bbox, 1), AxisExcess(pos, bbox, 2)),
                AxisExcess(pos, bbox, 3)),
           dist_max.sq)

\* the element test of a leaf of a shape BVH on element idx
DistanceElem(sbvh, pt, dist_max, idx) ==
    LET f == sbvh.elem[idx] IN
    IF sbvh.ntype = yb__ntype_point
    THEN yb__distance_point(pt, dist_max, sbvh.pos[f[1]], RadiusOrZero(sbvh, f[1]))
    ELSE IF sbvh.ntype = yb__ntype_line
    THEN yb__distance_line(pt, dist_max, sbvh.pos[f[1]], sbvh.pos[f[2]],
                           RadiusOrZero(sbvh, f[1]), RadiusOrZero(sbvh, f[2]))
    ELSE yb__distance_triangle(pt, dist_max, sbvh.pos[f[1]], sbvh.pos[f[2]],
                               sbvh.pos[f[3]], RadiusOrZero(sbvh, f[1]),
                               RadiusOrZero(sbvh, f[2]), RadiusOrZero(sbvh, f[3]))

\* the walk of a scene runs the walk of a shape in its leaves
RECURSIVE yb__neighbour_bvh(_, _, _, _, _)
RECURSIVE NeighbourRound(_, _, _, _)

\* the loop over the primitives of a leaf; w = [stack, hit, dist_max, sid, eid, euv]
NeighbourLeaf(bvh, early_exit, pt, node, w) ==
    LET Shape(s, idx, r) ==
            [w |-> [stack |-> s.w.stack, hit |-> s.w.hit \/ r.hit, dist_max |-> r.dist,
                    sid |-> IF r.hit THEN idx ELSE r.sid, eid |-> r.eid, euv |-> r.euv],
             i |-> s.i + 1]
        Elem(s, idx, r) ==
            [w |-> IF r.hit
                   THEN [s.w EXCEPT !.hit = TRUE, !.dist_max = r.dist, !.euv = r.euv,
                                    !.eid = idx]
                   ELSE s.w,
             i |-> s.i + 1]
        Prim(s, idx) ==
            IF bvh.ntype = yb__ntype_bvh
            THEN Shape(s, idx,
                       yb__neighbour_bvh(bvh.shapes[idx], early_exit,
                           ym_transform_point(bvh.inv_xforms[idx], pt), s.w.dist_max,
                           [dist |-> s.w.dist_max, sid |-> s.w.sid, eid |-> s.w.eid,
                            euv |-> s.w.euv]))
            ELSE Elem(s, idx, DistanceElem(bvh, pt, s.w.dist_max, idx))
    IN  Iterate(LAMBDA s : Prim(s, bvh.sorted_prim[node.start + s.i]),
                [w |-> w, i |-> 0], node.count).w

\* one round of the walking loop
NeighbourRound(bvh, early_exit, pt, w) ==
    LET Visit(node, popped) ==
            IF ~yb__distance_check_bbox(pt, w.dist_max, node.bbox) THEN popped
            ELSE IF ~node.isleaf
            THEN [popped EXCEPT
                    !.stack = @ \o [i \in 1 .. node.count |-> node.start + i - 1]]
            ELSE NeighbourLeaf(bvh, early_exit, pt, node, popped)
    IN  Visit(bvh.nodes[Top(w.stack)], [w EXCEPT !.stack = Pop(w.stack)])

\* the locals of yb__neighbour_bvh when the walking loop is entered
NeighbourEnter(dist_max, o) ==
    [stack |-> <<0>>, hit |-> FALSE, dist_max |-> dist_max,
     sid |-> o.sid, eid |-> o.eid, euv |-> o.euv]

\* !(node_cur && !(early_exit && hit))
NeighbourDone(early_exit, w) == w.stack = <<>> \/ (early_exit /\ w.hit)

\* if (hit) *dist = dist_max; return hit
NeighbourReturn(w, o) ==
    [hit |-> w.hit, dist |-> IF w.hit THEN w.dist_max ELSE o.dist,
     sid |-> w.sid, eid |-> w.eid, euv |-> w.euv]

\* if (hit) *sid = req_sid; return hit
NeighbourOwn(r, req_sid) == IF r.hit THEN [r EXCEPT !.sid = req_sid] ELSE r

\* yb__neighbour_bvh(bvh, early_exit, pt, dist_max, dist, sid, eid, euv)
yb__neighbour_bvh(bvh, early_exit, pt, dist_max, o) ==
    NeighbourReturn(While(LAMBDA s : NeighbourDone(early_exit, s),
                          LAMBDA s : NeighbourRound(bvh, early_exit, pt, s),
                          NeighbourEnter(dist_max, o),
                          Size(bvh.nodes)),
                    o)

\* a query on one shape that stores req_sid before it knows of a hit
NeighbourSidFirst(bvh, pt, max_dist, req_sid, o) ==
    IF req_sid >= 0
    THEN yb__neighbour_bvh(bvh.shapes[req_sid], FALSE,
                           ym_transform_point(bvh.inv_xforms[req_sid], pt),
                           max_dist, [o EXCEPT !.sid = req_sid])
    ELSE yb__neighbour_bvh(bvh, FALSE, pt, max_dist, o)

\* a search in shape req_sid that takes the query point as it is given, in the
\* world's frame
NeighbourWorldPoint(bvh, pt, max_dist, req_sid, o) ==
    IF req_sid >= 0
    THEN NeighbourOwn(yb__neighbour_bvh(bvh.shapes[req_sid], FALSE, pt, max_dist, o),
                      req_sid)
    ELSE yb__neighbour_bvh(bvh, FALSE, pt, max_dist, o)

\* yb_neighbour_scene_bvh
yb_neighbour_scene_bvh(bvh, pt, max_dist, req_sid, o) ==
    IF req_sid >= 0
    THEN NeighbourOwn(yb__neighbour_bvh(bvh.shapes[req_sid], FALSE,
                                        ym_transform_point(bvh.inv_xforms[req_sid], pt),
                                        max_dist, o),
                      req_sid)
    ELSE yb__neighbour_bvh(bvh, FALSE, pt, max_dist, o)

(***************************************************************************)
(* Overlap of shape bounds                                                 *)
(***************************************************************************)
\* yb__overlap_bbox (the empty range has max < min on every axis)
yb__overlap_bbox(bbox1, bbox2) ==
    /\ bbox1.valid /\ bbox2.valid
    /\ \A i \in 1 .. 3 :
          ~(FLt(bbox1.max[i], bbox2.min[i]) \/ FGt(bbox1.min[i], bbox2.max[i]))

\* a loop that skips no pair
SkipNoPair(exclude_self, idx1, idx2) == FALSE

\* if (exclude_self && idx1 == idx2) continue
SkipPair(exclude_self, idx1, idx2) == exclude_self /\ idx1 = idx2

\* the test of the shapes idx1, idx2 in the loops over two leaves: bbox1 is the root
\* bbox of shape idx1 under xforms[idx1], bbox2 the root bbox of shape idx1 (as the
\* source has it) under xforms[idx2]
ShapeBoundsOverlap(bvh, idx1, idx2) ==
    yb__overlap_bbox(yb__transform_bbox(bvh.xforms[idx1], bvh.shapes[idx1].nodes[0].bbox),
                     yb__transform_bbox(bvh.xforms[idx2], bvh.shapes[idx1].nodes[0].bbox))

\* "collide primitives": the pairs the loops over i1 and i2 pass to the callback,
\* in the order of the calls
OverlapLeaves(bvh, exclude_self, node1, node2) ==
    SelectSeq([k \in 1 .. node1.count * node2.count |->
                  <<bvh.sorted_prim[node1.start + ((k - 1) \div node2.count)],
                    bvh.sorted_prim[node2.start + ((k - 1) % node2.count)]>>],
              LAMBDA v : /\ ~SkipPair(exclude_self, v[1], v[2])
                         /\ ShapeBoundsOverlap(bvh, v[1], v[2]))

\* a descent that pushes the child before the leaf it is paired with
OverlapDescendChildFirst(node1_idx, node2_idx, node1, node2) ==
    IF node1.isleaf
    THEN [k \in 1 .. 2 * node2.count |->
             IF k % 2 = 1 THEN node2.start + ((k - 1) \div 2) ELSE node1_idx]
    ELSE [k \in 1 .. 2 * node1.count |->
             IF k % 2 = 1 THEN node1.start + ((k - 1) \div 2) ELSE node2_idx]

\* "descend": what is pushed on the stack, two entries for every child of the node
\* that is opened (node2 when node1 is a leaf, node1 otherwise)
OverlapDescend(node1_idx, node2_idx, node1, node2) ==
    IF node1.isleaf
    THEN [k \in 1 .. 2 * node2.count |->
             IF k % 2 = 1 THEN node1_idx ELSE node2.start + (k \div 2) - 1]
    ELSE [k \in 1 .. 2 * node1.count |->
             IF k % 2 = 1 THEN node1.start + ((k - 1) \div 2) ELSE node2_idx]

\* one round of the walking loop; s = [stack, hits, pairs] (pairs: the arguments of
\* the calls of overlap_cb so far)
OverlapRound(bvh, exclude_self, s) ==
    LET Emit(popped, vs) == [popped EXCEPT !.hits = @ + Len(vs), !.pairs = @ \o vs]
        Visit(node1_idx, node2_idx, popped) ==
            IF ~yb__overlap_bbox(bvh.nodes[node1_idx].bbox, bvh.nodes[node2_idx].bbox)
            THEN popped
            ELSE IF bvh.nodes[node1_idx].isleaf /\ bvh.nodes[node2_idx].isleaf
            THEN Emit(popped, OverlapLeaves(bvh, exclude_self, bvh.nodes[node1_idx],
                                            bvh.nodes[node2_idx]))
            ELSE [popped EXCEPT
                    !.stack = @ \o OverlapDescend(node1_idx, node2_idx,
                                                  bvh.nodes[node1_idx],
                                                  bvh.nodes[node2_idx])]
    IN  Visit(s.stack[Len(s.stack)], s.stack[Len(s.stack) - 1],
              [s EXCEPT !.stack = SubSeq(s.stack, 1, Len(s.stack) - 2)])

\* the locals of yb_overlap_shape_bounds when the walking loop is entered
OverlapEnter == [stack |-> <<0, 0>>, hits |-> 0, pairs |-> <<>>]

\* return hits (and the calls of the callback made)
OverlapReturn(w) == [hits |-> w.hits, pairs |-> w.pairs]

\* yb_overlap_shape_bounds(bvh, exclude_self, overlap_ctx, overlap_cb): the return
\* value and the calls of the callback
yb_overlap_shape_bounds(bvh, exclude_self) ==
    OverlapReturn(While(LAMBDA s : s.stack = <<>>,
                        LAMBDA s : OverlapRound(bvh, exclude_self, s),
                        OverlapEnter,
                        Size(bvh.nodes)))

(***************************************************************************)
(* State: the caller's data and the scene BVH                              *)
(***************************************************************************)
VARIABLES
    app,          \* the caller's data: per shape id, the mesh and its transform
    phase,        \* "setup", "built", "refit"
    nshapes,      \* yb_scene_bvh::nshapes
    heuristic,    \* yb__bvh::heuristic of the scene
    shapes,       \* yb_scene_bvh::shapes (a null pointer is [null |-> TRUE])
    xforms,       \* yb_scene_bvh::xforms
    inv_xforms,   \* yb_scene_bvh::inv_xforms
    nodes,        \* yb__bvh::nodes of the scene
    sorted_prim,  \* yb__bvh::sorted_prim of the scene
    pc,           \* the caller's position in its list of queries
    out,          \* the last call and what it returned and wrote
    arg_heuristic,  \* the heuristic argument of yb_init_scene_bvh
    allocated,    \* how many yb_shape_bvh objects new has made (their ids: 0, 1, ...)
    deleted,      \* per yb_shape_bvh object, how many times delete was called on it
    walk          \* per thread, the query it runs and the locals of the call

vars == <<app, phase, nshapes, heuristic, shapes, xforms, inv_xforms, nodes,
          sorted_prim, pc, out, arg_heuristic, allocated, deleted, walk>>

\* what only some callers change: the heap of shape objects and the threads
aux == <<arg_heuristic, allocated, deleted, walk>>

\* the threads of a caller that runs queries at the same time
Threads == {1, 2}
Idle == [t \in Threads |-> [state |-> "idle"]]

NullShape == [null |-> TRUE]
NoCall == [op |-> "none"]

\* the yb_scene_bvh the calls are made on
Scene ==
    [ntype |-> yb__ntype_bvh, nshapes |-> nshapes, shapes |-> shapes, xforms |-> xforms,
     inv_xforms |-> inv_xforms, nodes |-> nodes, sorted_prim |-> sorted_prim]

\* yb_build_scene_bvh, first loop: every shape built
BuiltShapes == Array([sid \in 0 .. nshapes - 1 |-> yb_build_shape_bvh(shapes[sid])])

\* yb_build_scene_bvh, second loop: the bound of a shape is its transformed root bbox
SceneBoundPrims(sh) ==
    Array([i \in 0 .. nshapes - 1 |->
              BoundPrim(i, yb__transform_bbox(xforms[i], sh[i].nodes[0].bbox))])

(***************************************************************************)
(* The caller's data: meshes and transforms the scenes are made of         *)
(***************************************************************************)
\* arrays written as tuples, re-indexed from 0 as the source indexes them
Arr(seq) == Array([i \in 0 .. Len(seq) - 1 |-> seq[i + 1]])
NullRadius == [null |-> TRUE, at |-> <<>>]
Radius(seq) == [null |-> FALSE, at |-> Arr(seq)]
Mesh(etype, elem, pos, radius, h) ==
    [nelems |-> Len(elem), etype |-> etype, elem |-> Arr(elem), pos |-> Arr(pos),
     radius |-> radius, heuristic |-> h]

\* one triangle, no radius array
MeshTriangle ==
    Mesh(yb_etype_triangle, << <<0, 1, 2>> >>,
         <<V(0, 0, 0), V(1, 0, 0), V(0, 1, 0)>>, NullRadius, yb_htype_default)

\* two fat points
MeshTwoPoints ==
    Mesh(yb_etype_point, << <<0>>, <<1>> >>,
         <<V(0, 0, 0), V(3, 0, 0)>>, Radius(<<F(1), F(1)>>), yb_htype_default)

\* two thick segments
MeshLines ==
    Mesh(yb_etype_line, << <<0, 1>>, <<2, 3>> >>,
         <<V(0, 0, 0), V(4, 0, 0), V(0, 2, 0), V(0, 2, 4)>>,
         Radius(<<<<1, 2>>, <<1, 2>>, F(0), F(1)>>), yb_htype_sah)

\* seven triangles over a shared vertex pool, split by the SAH sweep
MeshSevenTriangles ==
    Mesh(yb_etype_triangle,
         << <<0, 1, 2>>, <<1, 3, 2>>, <<4, 5, 6>>, <<2, 3, 7>>,
            <<5, 8, 6>>, <<0, 2, 7>>, <<4, 6, 8>> >>,
         <<V(0, 0, 0), V(2, 0, 0), V(0, 2, 0), V(2, 2, 1), V(4, 0, 2),
           V(6, 0, 2), V(4, 2, 2), V(0, 4, 0), V(6, 3, 3)>>,
         NullRadius, yb_htype_sah)

\* ten fat points, several with equal coordinates, split by object median
MeshTenPoints ==
    Mesh(yb_etype_point,
         << <<0>>, <<1>>, <<2>>, <<3>>, <<4>>, <<5>>, <<6>>, <<7>>, <<8>>, <<9>> >>,
         <<V(4, 1, 0), V(0, 0, 0), V(2, 3, 0), V(2, 0, 1), V(5, 2, 2),
           V(1, 1, 1), V(3, 3, 4), V(0, 2, 0), V(5, 0, 1), V(3, 1, 2)>>,
         Radius(<<F(0), F(1), F(0), <<1, 2>>, F(0), F(0), F(1), F(0), F(0), F(0)>>),
         yb_htype_equalnum)

Meshes == <<MeshTriangle, MeshTwoPoints, MeshLines, MeshSevenTriangles, MeshTenPoints>>

\* two points of radius 0.1
MeshSmallPoints ==
    Mesh(yb_etype_point, << <<0>>, <<1>> >>,
         <<V(0, 0, 0), V(2, 0, 0)>>, Radius(<<<<1, 10>>, <<1, 10>>>>), yb_htype_default)

\* two points, no radius array
MeshBarePoints ==
    Mesh(yb_etype_point, << <<0>>, <<1>> >>,
         <<V(0, 0, 0), V(2, 0, 0)>>, NullRadius, yb_htype_default)

\* two segments, no radius array
MeshBareLines ==
    Mesh(yb_etype_line, << <<0, 1>>, <<2, 3>> >>,
         <<V(0, 0, 0), V(4, 0, 0), V(0, 2, 0), V(0, 2, 4)>>, NullRadius, yb_htype_default)

\* two triangles, one above the other, given with a radius array
MeshFatTriangles ==
    Mesh(yb_etype_triangle, << <<0, 1, 2>>, <<3, 4, 5>> >>,
         <<V(0, 0, 0), V(1, 0, 0), V(0, 1, 0), V(0, 0, 1), V(1, 0, 1), V(0, 1, 1)>>,
         Radius(<<F(1), F(1), F(1), F(1), F(1), F(1)>>), yb_htype_default)

\* the meshes of points and lines with small or absent radii, and of triangles
\* with radii
RadiusMeshes == <<MeshSmallPoints, MeshBarePoints, MeshBareLines, MeshFatTriangles>>

Translate(x, y, z) == Affine(<<V(1, 0, 0), V(0, 1, 0), V(0, 0, 1)>>, V(x, y, z))
\* quarter turn about z, then a translation (rigid)
QuarterTurn == Affine(<<V(0, -1, 0), V(1, 0, 0), V(0, 0, 1)>>, V(1, 0, 2))
\* scaling by 2 along x with a shear of y into z (affine, not rigid)
ScaleShear == Affine(<<V(2, 0, 0), V(0, 1, 0), V(0, 1, 1)>>, V(0, -1, 0))

Xforms == <<ym_identity_affine3f, Translate(5, 0, 0), QuarterTurn, ScaleShear>>

\* largest number of shapes of a scene
MaxShapes == 5

\* shape i of a scene takes mesh a + i b and transform c + i d of the menus
SceneOf(menu, n, a, b, c, d) ==
    [i \in 0 .. n - 1 |->
        [mesh |-> menu[((a + i * b) % Len(menu)) + 1],
         xi |-> (c + i * d) % Len(Xforms),
         xform |-> Xforms[((c + i * d) % Len(Xforms)) + 1]]]

SceneData(n, a, b, c, d) == SceneOf(Meshes, n, a, b, c, d)

\* the rays the caller casts (world space)
Rays ==
    <<Ray(<<<<21, 4>>, <<1, 4>>, F(-1)>>, V(0, 0, 1), F(0), F(10)),
      Ray(V(-1, 0, 0), V(1, 0, 0), F(0), F(10)),
      Ray(V(8, 5, 4), <<F(-1), <<-1, 2>>, <<-1, 2>>>>, F(0), F(20)),
      Ray(<<<<1, 4>>, <<1, 4>>, F(-1)>>, V(0, 0, 1), F(0), <<1, 2>>),
      Ray(<<<<1, 4>>, <<1, 4>>, F(5)>>, V(0, 0, -1), F(0), F(10)),
      Ray(V(6, -2, 1), V(-1, 1, 0), F(1), F(10))>>

\* the points the caller asks the closest element of, with max_dist and req_sid
Points == <<V(1, 0, 0), V(2, 2, 2), V(7, 1, 0)>>

\* the caller's list of queries on the built scene
Queries ==
    [i \in 1 .. Len(Rays) |-> [op |-> "intersect", ray |-> Rays[i]]] \o
    [i \in 1 .. Len(Rays) |-> [op |-> "hit", ray |-> Rays[i]]] \o
    [i \in 1 .. Len(Points) |->
        [op |-> "neighbour", pt |-> Points[i], max_dist |-> Unbounded, req_sid |-> -1]] \o
    <<[op |-> "neighbour", pt |-> Points[1], max_dist |-> DistOfSquare(F(4)), req_sid |-> -1],
      [op |-> "neighbour", pt |-> Points[2], max_dist |-> Unbounded, req_sid |-> 0],
      [op |-> "neighbour", pt |-> Points[3], max_dist |-> DistOfSquare(F(4)), req_sid |-> 0],
      [op |-> "overlap", exclude_self |-> FALSE],
      [op |-> "overlap", exclude_self |-> TRUE]>>

\* what the caller's out variables hold before a call
CallerOut ==
    [t |-> F(-1), dist |-> DistOfSquare(F(0)), sid |-> -1, eid |-> -1,
     euv |-> <<F(-1), F(-1)>>]

(***************************************************************************)
(* Operations                                                              *)
(***************************************************************************)
\* yb_init_scene_bvh(nshapes, heuristic) on the caller's data; the heuristic
\* argument is not stored, and new yb_scene_bvh() zero-initialises the field
InitScene(data, h) ==
    /\ app = data
    /\ phase = "setup"
    /\ nshapes = Size(data)
    /\ heuristic = 0
    /\ shapes = [i \in DOMAIN data |-> NullShape]
    /\ xforms = [i \in DOMAIN data |-> ym_identity_affine3f]
    /\ inv_xforms = [i \in DOMAIN data |-> ym_identity_affine3f]
    /\ nodes = <<>>
    /\ sorted_prim = <<>>
    /\ pc = 0
    /\ out = NoCall
    /\ arg_heuristic = h
    /\ allocated = 0
    /\ deleted = <<>>
    /\ walk = Idle

\* the heuristic arguments the callers pass
SceneHeuristics == <<yb_htype_default, yb_htype_equalnum, yb_htype_sah>>

\* a scene of the menus; the heuristic argument goes round its three values
Init ==
    \E n \in 1 .. MaxShapes, a \in 0 .. Len(Meshes) - 1, b \in 0 .. 1,
       c \in 0 .. Len(Xforms) - 1, d \in 0 .. 1 :
        InitScene(SceneData(n, a, b, c, d), SceneHeuristics[((a + c) % 3) + 1])

\* a set_shape that does not free the shape it replaces
DeleteNothing(del, shape) == del

\* if (bvh->shapes[sid]) delete bvh->shapes[sid]
DeleteShape(del, shape) ==
    IF shape.null THEN del ELSE [del EXCEPT ![shape.ptr] = @ + 1]

\* yb_set_shape_bvh(bvh, sid, xform, ...) with the caller's data of shape sid: the
\* shape held at sid is deleted, a new one is made (ptr is its identity)
yb_set_shape_bvh(sid) ==
    /\ phase = "setup"
    /\ deleted' = DeleteShape(deleted, shapes[sid]) @@ (allocated :> 0)
    /\ allocated' = allocated + 1
    /\ LET m == app[sid].mesh IN
       shapes' = [shapes EXCEPT ![sid] =
                    [ptr |-> allocated] @@
                    yb_init_shape_bvh(m.nelems, m.elem, m.etype, m.pos, m.radius,
                                      m.heuristic)]
    /\ xforms' = [xforms EXCEPT ![sid] = app[sid].xform]
    /\ inv_xforms' = [inv_xforms EXCEPT ![sid] = ym_inverse(app[sid].xform)]
    /\ UNCHANGED <<app, phase, nshapes, heuristic, nodes, sorted_prim, pc, out,
                   arg_heuristic, walk>>

\* the caller's loop over the shapes: yb_set_shape_bvh(bvh, sid, ...), once for
\* every sid
SetShape(sid) ==
    /\ shapes[sid].null
    /\ \A i \in 0 .. sid - 1 : ~shapes[i].null
    /\ yb_set_shape_bvh(sid)

\* yb_build_scene_bvh
Build ==
    /\ phase = "setup"
    /\ \A i \in 0 .. nshapes - 1 : ~shapes[i].null
    /\ LET Store(sh, t) ==
               /\ shapes' = sh
               /\ nodes' = t.nodes
               /\ sorted_prim' = t.sorted_prim
           SceneTree(sh) ==
               Store(sh, BuildTree(nodes, SceneBoundPrims(sh), nshapes, heuristic))
       IN  SceneTree(BuiltShapes)
    /\ phase' = "built"
    /\ UNCHANGED <<app, nshapes, heuristic, xforms, inv_xforms, pc, out, aux>>

\* the transforms a caller refits with: every shape moved k places on in the menu
\* (k = 0: the transforms the scene was set up with)
RefitData(k) ==
    [i \in 0 .. nshapes - 1 |-> Xforms[((app[i].xi + k) % Len(Xforms)) + 1]]

\* yb_refit_scene_bvh(bvh, xfs), between two rounds of queries
Refit(xfs) ==
    /\ phase \in {"built", "refit"}
    /\ pc \in {0, Len(Queries)}
    /\ xforms' = Array([i \in 0 .. nshapes - 1 |-> xfs[i]])
    /\ inv_xforms' = Array([i \in 0 .. nshapes - 1 |-> ym_inverse(xfs[i])])
    /\ nodes' = yb__recompute_scene_bounds(nodes, 0, sorted_prim, shapes, xforms')
    /\ phase' = "refit"
    /\ pc' = 0
    /\ out' = [op |-> "refit"]
    /\ UNCHANGED <<app, nshapes, heuristic, shapes, sorted_prim, aux>>

\* the caller's next query is q (the caller runs its queries on the scene it built,
\* and again after every refit)
NextQuery(q, op) ==
    /\ phase \in {"built", "refit"}
    /\ pc < Len(Queries)
    /\ q = Queries[pc + 1]
    /\ q.op = op
    /\ pc' = pc + 1
    /\ UNCHANGED <<app, nshapes, heuristic, shapes, xforms, inv_xforms, nodes,
                   sorted_prim, aux>>

\* the values a read of sbvh->radius[f] through the null pointer may give when it
\* does not trap
WildRadii == {FZero, FOne}

\* what the reads of absent radius arrays do in a call on bvh: there are none, or
\* the first traps, or they give a value
NullReads(bvh) ==
    IF \E i \in DOMAIN bvh.shapes : ReadsAbsentRadius(bvh.shapes[i])
    THEN {[kind |-> "trap", r |-> FZero]} \cup {[kind |-> "value", r |-> x] : x \in WildRadii}
    ELSE {[kind |-> "none", r |-> FZero]}

\* the scene as the call reads it: an absent radius array reads as u.r
WithNullReads(bvh, u) ==
    LET Read(sbvh) ==
            IF sbvh.radius.null
            THEN [sbvh EXCEPT !.radius = [null |-> TRUE, at |-> [v \in DOMAIN sbvh.pos |-> u.r]]]
            ELSE sbvh
    IN  IF u.kind = "none"
        THEN bvh
        ELSE [bvh EXCEPT !.shapes = [i \in DOMAIN bvh.shapes |-> Read(bvh.shapes[i])]]

\* the call does not return: its first read of an absent array trapped
Trapped(r, u) == u.kind = "trap" /\ r.fault

\* hit = yb_intersect_scene_bvh(bvh, ray, &t, &sid, &eid, &euv)
Intersect(q) ==
    /\ NextQuery(q, "intersect")
    /\ \E u \in NullReads(Scene) :
          LET Call(r) ==
                  /\ out' = [op |-> "intersect", ray |-> q.ray, trap |-> Trapped(r, u)] @@
                            (IF Trapped(r, u) THEN [fault |-> TRUE] ELSE r)
                  /\ phase' = IF Trapped(r, u) THEN "crashed" ELSE phase
          IN  Call(yb_intersect_scene_bvh(WithNullReads(Scene, u), q.ray, CallerOut))

\* hit = yb_hit_scene_bvh(bvh, ray)
Hit(q) ==
    /\ NextQuery(q, "hit")
    /\ \E u \in NullReads(Scene) :
          LET Call(fault) ==
                  /\ out' = [op |-> "hit", ray |-> q.ray, fault |-> fault,
                             trap |-> fault /\ u.kind = "trap"] @@
                            (IF fault /\ u.kind = "trap"
                             THEN <<>>
                             ELSE [hit |-> yb_hit_scene_bvh(WithNullReads(Scene, u), q.ray)])
                  /\ phase' = IF fault /\ u.kind = "trap" THEN "crashed" ELSE phase
          IN  Call(u.kind # "none" /\
                   yb__intersect_bvh(WithNullReads(Scene, u), TRUE, q.ray, Locals).fault)

\* hit = yb_neighbour_scene_bvh(bvh, pt, max_dist, req_sid, &dist, &sid, &eid, &euv)
Neighbour(q) ==
    /\ NextQuery(q, "neighbour")
    /\ out' = [op |-> "neighbour", pt |-> q.pt, max_dist |-> q.max_dist,
               req_sid |-> q.req_sid] @@
              yb_neighbour_scene_bvh(Scene, q.pt, q.max_dist, q.req_sid, CallerOut)
    /\ UNCHANGED phase

\* hits = yb_overlap_shape_bounds(bvh, exclude_self, ctx, cb)
Overlap(q) ==
    /\ NextQuery(q, "overlap")
    /\ out' = [op |-> "overlap", exclude_self |-> q.exclude_self] @@
              yb_overlap_shape_bounds(Scene, q.exclude_self)
    /\ UNCHANGED phase

Next ==
    \/ \E sid \in 0 .. nshapes - 1 : SetShape(sid)
    \/ Build
    \/ \E k \in 0 .. Len(Xforms) - 1 : Refit(RefitData(k))
    \/ \E i \in 1 .. Len(Queries) : Intersect(Queries[i])
    \/ \E i \in 1 .. Len(Queries) : Hit(Queries[i])
    \/ \E i \in 1 .. Len(Queries) : Neighbour(Queries[i])
    \/ \E i \in 1 .. Len(Queries) : Overlap(Queries[i])

Spec == Init /\ [][Next]_vars

(***************************************************************************)
(* The life of the shape objects: a caller that sets shapes in any order,  *)
(* some of them again, and frees the scene                                 *)
(***************************************************************************)
\* largest number of shapes of these scenes, largest number of calls of set_shape
MaxLifeShapes == 3
MaxInstalls == 5

InitLife ==
    \E n \in 1 .. MaxLifeShapes : InitScene(SceneData(n, 0, 1, 0, 1), yb_htype_default)

\* yb_set_shape_bvh on any sid, set before or not
SetShapeAgain(sid) ==
    /\ allocated < MaxInstalls
    /\ yb_set_shape_bvh(sid)

\* ~yb_scene_bvh(): if (shapes[i]) delete shapes[i], for every i
DeleteShapes(del, sh) ==
    [p \in DOMAIN del |->
        del[p] + Cardinality({i \in DOMAIN sh : ~sh[i].null /\ sh[i].ptr = p})]

\* yb_free_scene_bvh(bvh): delete bvh
Free ==
    /\ phase # "freed"
    /\ phase' = "freed"
    /\ deleted' = DeleteShapes(deleted, shapes)
    /\ UNCHANGED <<app, nshapes, heuristic, shapes, xforms, inv_xforms, nodes,
                   sorted_prim, pc, out, arg_heuristic, allocated, walk>>

NextLife ==
    \/ \E sid \in 0 .. nshapes - 1 : SetShapeAgain(sid)
    \/ Free

SpecLife == InitLife /\ [][NextLife]_vars

(***************************************************************************)
(* Shapes of points and lines with small or absent radii, in a build with  *)
(* the assertions on and in one with NDEBUG                                *)
(***************************************************************************)
\* largest number of shapes of these scenes
MaxRadiusShapes == 2

InitRadius ==
    \E n \in 1 .. MaxRadiusShapes, a \in 0 .. Len(RadiusMeshes) - 1, b \in 0 .. 1,
       c \in 0 .. Len(Xforms) - 1, d \in 0 .. 1 :
        InitScene(SceneOf(RadiusMeshes, n, a, b, c, d), yb_htype_default)

\* yb_build_scene_bvh with the assertions on: assert(bvh->radius) of
\* yb_build_shape_bvh fails on a shape of lines without radius array
BuildAbort ==
    /\ phase = "setup"
    /\ \A i \in 0 .. nshapes - 1 : ~shapes[i].null
    /\ \E i \in 0 .. nshapes - 1 :
          shapes[i].etype = yb_etype_line /\ shapes[i].radius.null
    /\ phase' = "aborted"
    /\ UNCHANGED <<app, nshapes, heuristic, shapes, xforms, inv_xforms, nodes,
                   sorted_prim, pc, out, aux>>

NextRadius ==
    \/ \E sid \in 0 .. nshapes - 1 : SetShape(sid)
    \/ Build
    \/ BuildAbort
    \/ \E i \in 1 .. Len(Queries) : Intersect(Queries[i])
    \/ \E i \in 1 .. Len(Queries) : Hit(Queries[i])
    \/ \E i \in 1 .. Len(Queries) : Neighbour(Queries[i])
    \/ \E i \in 1 .. Len(Queries) : Overlap(Queries[i])

SpecRadius == InitRadius /\ [][NextRadius]_vars

(***************************************************************************)
(* The ray predicates on their own: a caller that tests rays against a     *)
(* point, a segment and a triangle                                         *)
(***************************************************************************)
\* the rays: from two origins along three directions, over four ranges
PrimRays ==
    {Ray(o, d, tmin, tmax) :
        o \in {V(-1, 0, 0), V(0, 0, -1)}, d \in {V(1, 0, 0), V(0, 0, 1), V(0, 0, 2)},
        tmin \in {F(0), F(1)}, tmax \in {F(1), F(10)}}

\* the points, with the radii they are given
PrimPoints == {V(0, 0, 0), V(2, 0, 0), V(0, 0, 1), V(0, 1, 0)}
PrimRadii == {FZero, FOne}

\* the segments and the triangles
PrimLines == {<<V(0, -1, 0), V(0, 1, 0)>>, <<V(0, 0, 0), V(0, 0, 1)>>, <<V(1, -1, 1), V(-1, 1, 1)>>}
PrimTriangles ==
    {<<V(-1, -1, 0), V(1, -1, 0), V(0, 1, 0)>>, <<V(0, -1, -1), V(0, 1, -1), V(0, 0, 1)>>,
     <<V(0, 0, 0), V(1, 0, 0), V(0, 1, 0)>>}

\* no scene is needed
InitPrims == InitScene(<<>>, yb_htype_default)

\* hit = yb__intersect_point(ray, p, r, &t, &euv)
RayPoint(ray, p, r) ==
    /\ out' = [op |-> "ray_point", ray |-> ray] @@ yb__intersect_point(ray, p, r)
    /\ UNCHANGED <<app, phase, nshapes, heuristic, shapes, xforms, inv_xforms, nodes,
                   sorted_prim, pc, aux>>

\* hit = yb__intersect_line(ray, v0, v1, r0, r1, &t, &euv)
RayLine(ray, l, r0, r1) ==
    /\ out' = [op |-> "ray_line", ray |-> ray] @@ yb__intersect_line(ray, l[1], l[2], r0, r1)
    /\ UNCHANGED <<app, phase, nshapes, heuristic, shapes, xforms, inv_xforms, nodes,
                   sorted_prim, pc, aux>>

\* hit = yb__intersect_triangle(ray, v0, v1, v2, &t, &euv)
RayTriangle(ray, tr) ==
    /\ out' = [op |-> "ray_triangle", ray |-> ray] @@
              yb__intersect_triangle(ray, tr[1], tr[2], tr[3])
    /\ UNCHANGED <<app, phase, nshapes, heuristic, shapes, xforms, inv_xforms, nodes,
                   sorted_prim, pc, aux>>

NextPrims ==
    \/ \E ray \in PrimRays, p \in PrimPoints, r \in PrimRadii : RayPoint(ray, p, r)
    \/ \E ray \in PrimRays, l \in PrimLines, r0 \in PrimRadii, r1 \in PrimRadii :
          RayLine(ray, l, r0, r1)
    \/ \E ray \in PrimRays, tr \in PrimTriangles : RayTriangle(ray, tr)

SpecPrims == InitPrims /\ [][NextPrims]_vars

(***************************************************************************)
(* Concurrent queries: two threads walk the built scene, a round of the    *)
(* walking loop at a time, each with the stack and the locals of its call  *)
(***************************************************************************)
\* largest number of shapes of these scenes
MaxConcShapes == 3

\* the queries (places in Queries) the threads choose from
ConcQueries == {1, 2, 8, 13, 17, 19}

InitConc ==
    \E n \in 1 .. MaxConcShapes, a \in 0 .. Len(Meshes) - 1 :
        InitScene(SceneData(n, a, 1, a, 1), yb_htype_default)

\* locals shared between the calls: a thread works on those of thread 1 while
\* thread 1 runs the same function
SharedLocals(wk, t) ==
    IF wk[1].state = "running" /\ wk[1].q.op = wk[t].q.op THEN wk[1].w ELSE wk[t].w

\* node_stack, node_cur, hit, ray / dist_max, hits: automatic variables of the call
\* thread t makes
LocalsOf(wk, t) == wk[t].w

\* the walk of query q: the locals at the loop's entry, the loop's test, one round
\* of the loop, what the call returns
WalkEnter(q) ==
    CASE q.op = "intersect" -> IntersectEnter(q.ray, CallerOut)
      [] q.op = "hit" -> IntersectEnter(q.ray, Locals)
      [] q.op = "neighbour" -> NeighbourEnter(q.max_dist, CallerOut)
      [] q.op = "overlap" -> OverlapEnter

WalkDone(q, w) ==
    CASE q.op = "intersect" -> IntersectDone(FALSE, w)
      [] q.op = "hit" -> IntersectDone(TRUE, w)
      [] q.op = "neighbour" -> NeighbourDone(FALSE, w)
      [] q.op = "overlap" -> w.stack = <<>>

WalkRound(bvh, q, w) ==
    CASE q.op = "intersect" -> IntersectRound(bvh, FALSE, q.ray, w)
      [] q.op = "hit" -> IntersectRound(bvh, TRUE, q.ray, w)
      [] q.op = "neighbour" ->
            IF q.req_sid >= 0
            THEN NeighbourRound(bvh.shapes[q.req_sid], FALSE,
                                ym_transform_point(bvh.inv_xforms[q.req_sid], q.pt), w)
            ELSE NeighbourRound(bvh, FALSE, q.pt, w)
      [] q.op = "overlap" -> OverlapRound(bvh, q.exclude_self, w)

WalkReturn(q, w) ==
    CASE q.op = "intersect" -> IntersectReturn(w, CallerOut)
      [] q.op = "hit" -> [hit |-> IntersectReturn(w, Locals).hit]
      [] q.op = "neighbour" ->
            IF q.req_sid >= 0
            THEN NeighbourOwn(NeighbourReturn(w, CallerOut), q.req_sid)
            ELSE NeighbourReturn(w, CallerOut)
      [] q.op = "overlap" -> OverlapReturn(w)

\* thread t calls query i of the list on the built scene; mixed tells whether the
\* other thread's call ran during a round of this one
StartQuery(t, i) ==
    /\ phase = "built"
    /\ walk[t].state = "idle"
    /\ walk' = [walk EXCEPT ![t] = [state |-> "running", q |-> Queries[i],
                                    w |-> WalkEnter(Queries[i]), mixed |-> FALSE]]
    /\ UNCHANGED <<app, phase, nshapes, heuristic, shapes, xforms, inv_xforms, nodes,
                   sorted_prim, pc, out, arg_heuristic, allocated, deleted>>

\* thread t runs the loop's test and, unless it ends the loop, one round of it
StepQuery(t) ==
    /\ walk[t].state = "running"
    /\ LET q == walk[t].q
           w == LocalsOf(walk, t)
           mixed == walk[t].mixed \/ \E u \in Threads \ {t} : walk[u].state = "running"
       IN  walk' = [walk EXCEPT ![t] =
                      IF WalkDone(q, w)
                      THEN [state |-> "done", q |-> q, result |-> WalkReturn(q, w),
                            mixed |-> mixed]
                      ELSE [state |-> "running", q |-> q,
                            w |-> WalkRound(Scene, q, w), mixed |-> mixed]]
    /\ UNCHANGED <<app, phase, nshapes, heuristic, shapes, xforms, inv_xforms, nodes,
                   sorted_prim, pc, out, arg_heuristic, allocated, deleted>>

NextConc ==
    \/ \E sid \in 0 .. nshapes - 1 : SetShape(sid)
    \/ Build
    \/ \E t \in Threads, i \in ConcQueries : StartQuery(t, i)
    \/ \E t \in Threads : StepQuery(t)

SpecConc == InitConc /\ [][NextConc]_vars

(***************************************************************************)
(* Properties of the queries                                               *)
(***************************************************************************)
\* every (shape id, element id) of the scene
Elements ==
    UNION {{<<sid, eid>> : eid \in 0 .. shapes[sid].nelems - 1} : sid \in 0 .. nshapes - 1}

\* the ray in the frame of shape sid
LocalRay(ray, sid) ==
    Ray(ym_transform_point(inv_xforms[sid], ray.o),
        ym_transform_vector(inv_xforms[sid], ray.d), ray.tmin, ray.tmax)

\* the brute-force test: the ray against every element of every shape, each in the
\* ray's whole range
BruteForceHits(ray) ==
    LET Test(e) == IntersectElem(shapes[e[1]], LocalRay(ray, e[1]), e[2])
    IN  {[sid |-> e[1], eid |-> e[2], t |-> Test(e).t, euv |-> Test(e).euv] :
            e \in {x \in Elements : Test(x).hit}}

\* C1: yb_intersect_scene_bvh on a scene as yb_build_scene_bvh left it reports a
\* hit exactly when the brute-force test finds one, and then t is the smallest t of
\* the brute-force hits and sid, eid, euv are those of an element that attains it
C1_IntersectIsBruteForce ==
    (phase = "built" /\ out.op = "intersect") =>
        LET hits == BruteForceHits(out.ray)
        IN  /\ out.hit <=> hits # {}
            /\ out.hit =>
                  /\ [sid |-> out.sid, eid |-> out.eid, t |-> out.t, euv |-> out.euv] \in hits
                  /\ \A h \in hits : FLe(out.t, h.t)

\* the transformed instance: two shapes holding the same triangle, the first under
\* the identity and the other under translate(5, 0, 0); the ray from
\* (5.25, 0.25, -1) along z is reported with sid = 1, eid = 0, t = 1
C1_Witness ==
    /\ phase = "built"
    /\ out.op = "intersect"
    /\ nshapes = 2
    /\ app[0].mesh = MeshTriangle /\ app[1].mesh = MeshTriangle
    /\ xforms[0] = ym_identity_affine3f /\ xforms[1] = Translate(5, 0, 0)
    /\ out.ray = Ray(<<<<21, 4>>, <<1, 4>>, F(-1)>>, V(0, 0, 1), F(0), F(10))
    /\ out.hit /\ out.sid = 1 /\ out.eid = 0 /\ out.t = F(1)

\* C2: on a built scene, refitted or not, yb_hit_scene_bvh returns true if and
\* only if yb_intersect_scene_bvh returns true for the same ray
C2_HitIffIntersect ==
    out.op = "hit" => (out.hit <=> yb_intersect_scene_bvh(Scene, out.ray, CallerOut).hit)

\* an any-hit query that returned true on a ray several elements of several shapes
\* are hit by
C2_Witness ==
    /\ out.op = "hit"
    /\ out.hit
    /\ Cardinality({h.sid : h \in BruteForceHits(out.ray)}) >= 2

\* a transform that keeps distances: the rows of the linear part are orthonormal
Rigid(a) ==
    \A i, j \in 1 .. 3 : ym_dot(a.m[i], a.m[j]) = IF i = j THEN FOne ELSE FZero

\* the brute-force search: the distance test of the point, in the frame of the
\* shape, on every element of every shape with no bound on the distance
BruteForceNearest(pt) ==
    LET Test(e) == DistanceElem(shapes[e[1]], ym_transform_point(inv_xforms[e[1]], pt),
                                Unbounded, e[2])
    IN  {[sid |-> e[1], eid |-> e[2], dist |-> Test(e).dist, euv |-> Test(e).euv] :
            e \in Elements}

\* C3: on a scene as yb_build_scene_bvh left it, with rigid transforms,
\* yb_neighbour_scene_bvh with unbounded max_dist and req_sid < 0 returns the shape
\* id, element id, euv and distance of an element at the least distance the
\* brute-force search finds
C3_NeighbourIsBruteForce ==
    (/\ phase = "built"
     /\ out.op = "neighbour"
     /\ out.max_dist = Unbounded
     /\ out.req_sid < 0
     /\ \A sid \in 0 .. nshapes - 1 : Rigid(xforms[sid])) =>
        /\ out.hit
        /\ [sid |-> out.sid, eid |-> out.eid, dist |-> out.dist, euv |-> out.euv]
              \in BruteForceNearest(out.pt)
        /\ \A h \in BruteForceNearest(out.pt) : FLe(out.dist.sq, h.dist.sq)

(***************************************************************************)
(* Properties of the built trees                                           *)
(***************************************************************************)
Built == phase # "setup"

\* b lies inside a
Encloses(a, b) ==
    ~b.valid \/
    (a.valid /\ \A k \in 1 .. 3 : FLe(a.min[k], b.min[k]) /\ FLe(b.max[k], a.max[k]))

\* the bound of primitive i of the scene tree: the transformed root bbox of shape i
ScenePrimBox(i) == yb__transform_bbox(xforms[i], shapes[i].nodes[0].bbox)

HasInternal(nds) == \E i \in DOMAIN nds : ~nds[i].isleaf

\* leaf slots of node ni
Slots(node) == node.start .. node.start + node.count - 1

\* every internal node encloses its two children
ChildrenEnclosed(nds) ==
    \A ni \in DOMAIN nds :
        ~nds[ni].isleaf =>
            /\ Encloses(nds[ni].bbox, nds[nds[ni].start].bbox)
            /\ Encloses(nds[ni].bbox, nds[nds[ni].start + 1].bbox)

\* every leaf of a shape tree encloses the elements it references
ShapeLeavesEnclose(bvh) ==
    \A ni \in DOMAIN bvh.nodes :
        bvh.nodes[ni].isleaf =>
            \A k \in Slots(bvh.nodes[ni]) :
                Encloses(bvh.nodes[ni].bbox, ElemBounds(bvh, bvh.sorted_prim[k]))

\* every leaf of the scene tree encloses the transformed roots of its shapes
SceneLeavesEnclose ==
    \A ni \in DOMAIN nodes :
        nodes[ni].isleaf =>
            \A k \in Slots(nodes[ni]) :
                Encloses(nodes[ni].bbox, ScenePrimBox(sorted_prim[k]))

\* C4: after the build every internal node's bbox encloses the bboxes of both
\* children and every leaf's bbox encloses the bound of every primitive (for the
\* scene: the transformed shape root) it references through sorted_prim
C4_NodesEncloseContent ==
    /\ Built => \A sid \in 0 .. nshapes - 1 :
                    ChildrenEnclosed(shapes[sid].nodes) /\ ShapeLeavesEnclose(shapes[sid])
    /\ phase = "built" => ChildrenEnclosed(nodes) /\ SceneLeavesEnclose

C4_Witness ==
    /\ phase = "built"
    /\ HasInternal(nodes)
    /\ \E sid \in 0 .. nshapes - 1 :
          HasInternal(shapes[sid].nodes) /\ xforms[sid] # ym_identity_affine3f

IsPermutation(sp, n) ==
    /\ DOMAIN sp = 0 .. n - 1
    /\ {sp[i] : i \in 0 .. n - 1} = 0 .. n - 1

\* C5: after the build sorted_prim of every shape is a permutation of
\* 0 .. nelems-1 and sorted_prim of the scene a permutation of 0 .. nshapes-1
C5_SortedPrimIsPermutation ==
    Built =>
        /\ IsPermutation(sorted_prim, nshapes)
        /\ \A sid \in 0 .. nshapes - 1 :
              IsPermutation(shapes[sid].sorted_prim, shapes[sid].nelems)

Moved(sp) == \E i \in DOMAIN sp : sp[i] # i

C5_Witness ==
    /\ Built
    /\ Moved(sorted_prim)
    /\ \E sid \in 0 .. nshapes - 1 :
          /\ shapes[sid].heuristic = yb_htype_sah /\ Moved(shapes[sid].sorted_prim)
    /\ \E sid \in 0 .. nshapes - 1 :
          /\ shapes[sid].heuristic = yb_htype_equalnum /\ Moved(shapes[sid].sorted_prim)

\* the leaves reachable from node ni
RECURSIVE LeavesFrom(_, _)
LeavesFrom(nds, ni) ==
    IF nds[ni].isleaf THEN {ni}
    ELSE LeavesFrom(nds, nds[ni].start) \cup LeavesFrom(nds, nds[ni].start + 1)

\* the leaf ranges are pairwise disjoint and cover exactly 0 .. n-1
LeavesPartition(nds, n) ==
    LET leaves == LeavesFrom(nds, 0) IN
    /\ \A l \in leaves : Slots(nds[l]) \subseteq 0 .. n - 1
    /\ \A k \in 0 .. n - 1 : Cardinality({l \in leaves : k \in Slots(nds[l])}) = 1

\* hull of box(sp[k]) over the slots k of a leaf
RECURSIVE SlotHull(_, _, _, _)
SlotHull(box(_), sp, lo, hi) ==
    IF lo >= hi THEN ym_invalid_range3f
    ELSE ym_rexpand(SlotHull(box, sp, lo, hi - 1), box(sp[hi - 1]))

\* the bbox of every leaf is the hull of the records that ended in its range
LeavesHoldTheirRecords(nds, sp, box(_)) ==
    \A l \in LeavesFrom(nds, 0) :
        nds[l].bbox = SlotHull(box, sp, nds[l].start, nds[l].start + nds[l].count)

\* C6: after the build the slot ranges of the leaves reachable from node 0 are
\* pairwise disjoint and cover exactly [0, N); no later sort moved a record out of
\* or into an emitted leaf (each leaf's bbox is still the hull of its own range)
C6_LeavesPartitionSlots ==
    /\ Built => \A sid \in 0 .. nshapes - 1 :
          /\ LeavesPartition(shapes[sid].nodes, shapes[sid].nelems)
          /\ LeavesHoldTheirRecords(shapes[sid].nodes, shapes[sid].sorted_prim,
                                    LAMBDA i : ElemBounds(shapes[sid], i))
    /\ Built => LeavesPartition(nodes, nshapes)
    /\ phase = "built" => LeavesHoldTheirRecords(nodes, sorted_prim, ScenePrimBox)

C6_Witness ==
    /\ phase = "built"
    /\ Cardinality(LeavesFrom(nodes, 0)) >= 2
    /\ \E sid \in 0 .. nshapes - 1 : Cardinality(LeavesFrom(shapes[sid].nodes, 0)) >= 3

\* a binary tree rooted at node 0 with leaves of at most 4 primitives
BinaryTree(nds) ==
    /\ 0 \in DOMAIN nds
    /\ \A ni \in DOMAIN nds :
          IF nds[ni].isleaf THEN nds[ni].count <= 4
          ELSE /\ nds[ni].count = 2
               /\ nds[ni].start >= 1
               /\ nds[ni].start + 1 \in DOMAIN nds
    /\ \A ni \in DOMAIN nds \ {0} :
          Cardinality({p \in DOMAIN nds :
                          ~nds[p].isleaf /\ ni \in {nds[p].start, nds[p].start + 1}}) = 1

\* C7: after the build the node array is a binary tree rooted at node 0: internal
\* nodes have count 2 and children at start, start+1 (>= 1, below the node count),
\* every other node has exactly one parent, leaves hold at most 4 primitives
C7_BinaryTree ==
    Built => BinaryTree(nodes) /\ \A sid \in 0 .. nshapes - 1 : BinaryTree(shapes[sid].nodes)

C7_Witness ==
    /\ Built
    /\ HasInternal(nodes)
    /\ \E sid \in 0 .. nshapes - 1 :
          \E ni \in DOMAIN shapes[sid].nodes \ {0} : ~shapes[sid].nodes[ni].isleaf

(***************************************************************************)
(* Properties of refit                                                     *)
(***************************************************************************)
\* C8: refitting a built scene with the transforms it was built with leaves
\* every scene node's bbox as the build made it
C8_RefitSameXformsKeepsBboxes ==
    [][(phase = "built" /\ phase' = "refit" /\ xforms' = xforms) =>
          \A ni \in DOMAIN nodes : nodes'[ni].bbox = nodes[ni].bbox]_vars

Topology(nds) ==
    [ni \in DOMAIN nds |->
        [start |-> nds[ni].start, count |-> nds[ni].count,
         isleaf |-> nds[ni].isleaf, axis |-> nds[ni].axis]]

\* C9: a refit leaves the scene's topology (start, count, isleaf, axis of every
\* node, the node count, sorted_prim) and every shape BVH unchanged
C9_RefitKeepsTopology ==
    [][out'.op = "refit" =>
          /\ Topology(nodes') = Topology(nodes)
          /\ sorted_prim' = sorted_prim
          /\ shapes' = shapes
          /\ nshapes' = nshapes
          /\ heuristic' = heuristic]_vars

C9_Witness ==
    /\ phase = "refit"
    /\ out.op = "refit"
    /\ HasInternal(nodes)
    /\ \E i \in 0 .. nshapes - 1 : xforms[i] # app[i].xform

\* every scene leaf is the hull of the transformed roots of its own shapes and
\* every internal node the union of its two children
RefitBoxes ==
    /\ LeavesHoldTheirRecords(nodes, sorted_prim, ScenePrimBox)
    /\ \A ni \in DOMAIN nodes :
          ~nodes[ni].isleaf =>
              nodes[ni].bbox = ym_rexpand(ym_rexpand(ym_invalid_range3f,
                                   nodes[nodes[ni].start].bbox), nodes[nodes[ni].start + 1].bbox)

\* C10: after a refit every scene leaf's bbox is the hull of the transformed root
\* bboxes of exactly the shapes it references and every internal node's bbox the
\* union of its children
C10_RefitBoxesOfOwnShapes == phase = "refit" => RefitBoxes

(***************************************************************************)
(* Properties of the overlap of shape bounds                               *)
(***************************************************************************)
\* the pairs the callback was called with
EmittedPairs == {out.pairs[k] : k \in 1 .. Len(out.pairs)}

\* C11: the pairs yb_overlap_shape_bounds passes to the callback on a built scene
\* are symmetric: (i, j) is passed if and only if (j, i) is
C11_OverlapIsSymmetric ==
    (phase = "built" /\ out.op = "overlap") =>
        \A v \in EmittedPairs : <<v[2], v[1]>> \in EmittedPairs

\* C12: with exclude_self false the callback gets (i, i) for every shape i, with
\* exclude_self true it gets no pair with i = j
C12_SelfPairs ==
    out.op = "overlap" =>
        IF out.exclude_self
        THEN \A v \in EmittedPairs : v[1] # v[2]
        ELSE \A i \in 0 .. nshapes - 1 : <<i, i>> \in EmittedPairs

\* an overlap query with exclude_self false on a scene whose tree has an internal
\* node: every shape is paired with itself, whichever leaf holds it
C12_Witness ==
    /\ out.op = "overlap"
    /\ ~out.exclude_self
    /\ HasInternal(nodes)
    /\ \A i \in 0 .. nshapes - 1 : <<i, i>> \in EmittedPairs

\* C13: on a built scene the callback gets (i, j), i # j, exactly when the root
\* bbox of shape i under xforms[i] overlaps the root bbox of shape j under
\* xforms[j], and the return value is the number of calls of the callback
C13_OverlapOfOwnBounds ==
    (phase = "built" /\ out.op = "overlap") =>
        /\ \A i, j \in 0 .. nshapes - 1 :
              i # j => (<<i, j>> \in EmittedPairs <=>
                            yb__overlap_bbox(ScenePrimBox(i), ScenePrimBox(j)))
        /\ out.hits = Len(out.pairs)

(***************************************************************************)
(* Properties of the out parameters                                        *)
(***************************************************************************)
\* C14: when yb_intersect_scene_bvh or yb_neighbour_scene_bvh (with or without
\* req_sid) returns false, ray_t / dist, sid, eid and euv hold what the caller had
\* put there: nothing was written
C14_MissWritesNothing ==
    (out.op \in {"intersect", "neighbour"} /\ ~out.hit) =>
        /\ out.sid = CallerOut.sid
        /\ out.eid = CallerOut.eid
        /\ out.euv = CallerOut.euv
        /\ out.op = "intersect" => out.t = CallerOut.t
        /\ out.op = "neighbour" => out.dist = CallerOut.dist

\* a closest-point query on one shape, within a bounded distance, that found nothing
C14_Witness ==
    /\ out.op = "neighbour"
    /\ ~out.hit
    /\ out.req_sid >= 0
    /\ out.max_dist # Unbounded

SceneTreeWith(h) == BuildTree(<<>>, SceneBoundPrims(shapes), nshapes, h)

\* C17: the scene nodes are built with the heuristic passed to yb_init_scene_bvh
\* (equalnum: object median along the longest axis of the centers; 0 or sah: the
\* SAH sweep)
C17_SceneHeuristicIsTheArgument ==
    phase = "built" =>
        /\ nodes = SceneTreeWith(arg_heuristic).nodes
        /\ sorted_prim = SceneTreeWith(arg_heuristic).sorted_prim

(***************************************************************************)
(* Concurrent queries                                                      *)
(***************************************************************************)
\* what query q returns when it is the only call running
AloneResult(q) ==
    CASE q.op = "intersect" -> yb_intersect_scene_bvh(Scene, q.ray, CallerOut)
      [] q.op = "hit" -> [hit |-> yb_hit_scene_bvh(Scene, q.ray)]
      [] q.op = "neighbour" ->
            yb_neighbour_scene_bvh(Scene, q.pt, q.max_dist, q.req_sid, CallerOut)
      [] q.op = "overlap" -> yb_overlap_shape_bounds(Scene, q.exclude_self)

\* the steps of the queries
QuerySteps ==
    \/ \E t \in Threads, i \in ConcQueries : StartQuery(t, i)
    \/ \E t \in Threads : StepQuery(t)

\* C16: no step of a query writes the BVH (nodes, sorted primitives, shapes,
\* transforms), and a query that returns while other queries run on the same BVH,
\* in whatever interleaving, returns what it returns when it runs alone
C16_ConcurrentQueriesAsAlone ==
    /\ [](\A t \in Threads :
            walk[t].state = "done" => walk[t].result = AloneResult(walk[t].q))
    /\ [][QuerySteps => UNCHANGED <<nshapes, heuristic, shapes, xforms, inv_xforms,
                                    nodes, sorted_prim>>]_vars

\* two different queries that ran interleaved have both returned a hit
C16_Witness ==
    /\ walk[1].state = "done" /\ walk[2].state = "done"
    /\ walk[1].mixed /\ walk[2].mixed
    /\ walk[1].q # walk[2].q
    /\ walk[1].q.op = "intersect" /\ walk[1].result.hit
    /\ walk[2].q.op = "neighbour" /\ walk[2].result.hit
    /\ nshapes = 3

(***************************************************************************)
(* The closest-point query on one shape and on all                         *)
(***************************************************************************)
\* the element test of element e = (sid, eid) at the point in the frame of its
\* shape, within max_dist
NearTest(e, pt, max_dist) ==
    DistanceElem(shapes[e[1]], ym_transform_point(inv_xforms[e[1]], pt), max_dist, e[2])

\* what the query reports is element e, with the distance and euv of its test
ReportsElement(e) ==
    /\ out.sid = e[1] /\ out.eid = e[2]
    /\ NearTest(e, out.pt, out.max_dist).hit
    /\ NearTest(e, out.pt, out.max_dist).dist = out.dist
    /\ NearTest(e, out.pt, out.max_dist).euv = out.euv

\* element e lies at less than max_dist from the point (the distance to the
\* element itself, whatever its radii)
StrictlyWithin(e, pt, max_dist) ==
    max_dist.inf \/ FLt(NearTest(e, pt, Unbounded).dist.sq, max_dist.sq)

\* the scene without its node array
SceneWithoutNodes == [Scene EXCEPT !.nodes = <<>>, !.sorted_prim = <<>>]

\* C19: yb_neighbour_scene_bvh with req_sid >= 0 reports a hit when an element of
\* shape req_sid lies at less than max_dist from the point transformed by
\* inv_xforms[req_sid], a hit it reports has sid = req_sid and the eid, distance
\* and euv of an element of that shape that passes its test at the transformed
\* point, and the call gives the same on a scene whose node array is taken away;
\* with req_sid < 0 (scene as built, rigid transforms) it reports a hit when an
\* element of any shape lies at less than max_dist, and a hit it reports is an
\* element of the scene that passes its test
C19_RequiredShape ==
    out.op = "neighbour" =>
        /\ out.req_sid >= 0 =>
              /\ (\E eid \in 0 .. shapes[out.req_sid].nelems - 1 :
                     StrictlyWithin(<<out.req_sid, eid>>, out.pt, out.max_dist)) => out.hit
              /\ out.hit => /\ out.sid = out.req_sid
                            /\ out.eid \in 0 .. shapes[out.req_sid].nelems - 1
                            /\ ReportsElement(<<out.req_sid, out.eid>>)
              /\ yb_neighbour_scene_bvh(SceneWithoutNodes, out.pt, out.max_dist,
                                        out.req_sid, CallerOut)
                    = [x \in {"hit", "dist", "sid", "eid", "euv"} |-> out[x]]
        /\ (out.req_sid < 0 /\ phase = "built"
              /\ \A sid \in 0 .. nshapes - 1 : Rigid(xforms[sid])) =>
              /\ (\E e \in Elements : StrictlyWithin(e, out.pt, out.max_dist)) => out.hit
              /\ out.hit => /\ <<out.sid, out.eid>> \in Elements
                            /\ ReportsElement(<<out.sid, out.eid>>)

\* a query on shape 0 of a scene of several shapes, shape 0 under a transform other
\* than the identity, that found an element of it while the search over all shapes
\* from the same point finds one of another shape
C19_Witness ==
    /\ out.op = "neighbour"
    /\ out.req_sid = 0
    /\ out.hit
    /\ out.sid = 0
    /\ nshapes >= 2
    /\ xforms[0] # ym_identity_affine3f
    /\ yb_neighbour_scene_bvh(Scene, out.pt, out.max_dist, -1, CallerOut).sid # 0

(***************************************************************************)
(* Points and lines with small or absent radii                             *)
(***************************************************************************)
\* C18: with a shape of points or lines whose radius array is absent, no assertion
\* of the build fails, no ray query reads an element of the absent array, and a ray
\* query returns what it returns when every radius is 0
C18_AbsentRadiusIsZero ==
    /\ phase # "aborted"
    /\ out.op \in {"intersect", "hit"} => ~out.fault /\ ~out.trap
    /\ (out.op = "intersect" /\ ~out.trap) =>
          LET zero == yb_intersect_scene_bvh(
                          WithNullReads(Scene, [kind |-> "value", r |-> FZero]),
                          out.ray, CallerOut)
          IN  /\ out.hit = zero.hit /\ out.t = zero.t
              /\ out.sid = zero.sid /\ out.eid = zero.eid /\ out.euv = zero.euv

\* C20: Scenario C, one shape of the points (0,0,0) and (2,0,0) of radius 0.1 under
\* the identity and the ray from (-1,0,0) along (1,0,0) with tmin 0 and tmax 10:
\* yb_intersect_scene_bvh reports a hit with eid 0, euv (0,0) and t within 0.01 of
\* 0.9
C20_ScenarioC ==
    (/\ phase = "built"
     /\ nshapes = 1
     /\ app[0].mesh = MeshSmallPoints
     /\ xforms[0] = ym_identity_affine3f
     /\ out.op = "intersect"
     /\ out.ray = Ray(V(-1, 0, 0), V(1, 0, 0), F(0), F(10))) =>
        /\ out.hit
        /\ out.eid = 0
        /\ out.euv = <<FZero, FZero>>
        /\ FLe(FSub(out.t, <<9, 10>>), <<1, 100>>)
        /\ FLe(FSub(<<9, 10>>, out.t), <<1, 100>>)

(***************************************************************************)
(* Properties of the ray predicates                                        *)
(***************************************************************************)
\* C21: a ray predicate (point, segment, triangle) that reports a hit reports a
\* parameter t strictly inside the ray's range, tmin < t < tmax
C21_HitStrictlyInside ==
    (out.op \in {"ray_point", "ray_line", "ray_triangle"} /\ out.hit) =>
        FLt(out.ray.tmin, out.t) /\ FLt(out.t, out.ray.tmax)

(***************************************************************************)
(* The order of the ray walk                                               *)
(***************************************************************************)
\* the nodes yb__intersect_bvh pops on bvh with the ray, in the order it pops them
PoppedNodes(bvh, ray) ==
    While(LAMBDA s : IntersectDone(FALSE, s.w),
          LAMBDA s : [w |-> IntersectRound(bvh, FALSE, ray, s.w),
                      seen |-> Append(s.seen, Top(s.w.stack))],
          [w |-> IntersectEnter(ray, CallerOut), seen |-> <<>>],
          Size(bvh.nodes)).seen

\* in the walk of bvh with the ray, the node popped after an internal node that
\* pushed its children is nodes[start] when the ray's direction along the node's
\* axis is non-negative and nodes[start + 1] when it is negative
NearChildFirst(bvh, ray) ==
    LET seen == PoppedNodes(bvh, ray)
    IN  \A k \in 1 .. Len(seen) - 1 :
            LET node == bvh.nodes[seen[k]]
            IN  (~node.isleaf /\ seen[k + 1] \in {node.start, node.start + 1}) =>
                    seen[k + 1] = IF FGe(ray.d[node.axis + 1], FZero)
                                  THEN node.start
                                  ELSE node.start + 1

\* C22: in a ray query, on the tree of the scene and on the tree of every shape
\* (with the ray in the shape's frame), the child processed first after an
\* internal node is nodes[start] when the ray's direction component along the split
\* axis is non-negative and nodes[start + 1] when it is negative
C22_NearChildFirst ==
    (phase = "built" /\ out.op = "intersect") =>
        /\ NearChildFirst(Scene, out.ray)
        /\ \A sid \in 0 .. nshapes - 1 : NearChildFirst(shapes[sid], LocalRay(out.ray, sid))

(***************************************************************************)
(* The distance bound of the closest-point walk                            *)
(***************************************************************************)
\* dist_max of yb__neighbour_bvh on bvh from pt: at the entry of the walking loop
\* and after each of its rounds
DistMaxTrace(bvh, pt, max_dist) ==
    While(LAMBDA s : NeighbourDone(FALSE, s.w),
          LAMBDA s : LET Next_(w) == [w |-> w, trace |-> Append(s.trace, w.dist_max)]
                     IN  Next_(NeighbourRound(bvh, FALSE, pt, s.w)),
          [w |-> NeighbourEnter(max_dist, CallerOut), trace |-> <<max_dist>>],
          Size(bvh.nodes)).trace

\* a <= b for distances that may be unbounded
DistLe(a, b) == b.inf \/ (~a.inf /\ FLe(a.sq, b.sq))

NeverIncreases(trace) ==
    \A k \in 1 .. Len(trace) - 1 : DistLe(trace[k + 1], trace[k])

\* C23: in the walk of a closest-point query (of the scene, or of shape req_sid
\* from the transformed point) dist_max after a round of the walking loop is never
\* greater than before it, and so the distance reported is not greater than the
\* max_dist of the call
C23_DistMaxNeverIncreases ==
    (phase = "built" /\ out.op = "neighbour") =>
        /\ NeverIncreases(
               IF out.req_sid >= 0
               THEN DistMaxTrace(shapes[out.req_sid],
                                 ym_transform_point(inv_xforms[out.req_sid], out.pt),
                                 out.max_dist)
               ELSE DistMaxTrace(Scene, out.pt, out.max_dist))
        /\ out.hit => DistLe(out.dist, out.max_dist)

(***************************************************************************)
(* Triangles and radii                                                     *)
(***************************************************************************)
\* the scene with the radius arrays of its triangle shapes taken away
WithoutTriangleRadii(bvh) ==
    [bvh EXCEPT !.shapes =
        [i \in DOMAIN bvh.shapes |->
            IF bvh.shapes[i].etype = yb_etype_triangle
            THEN [bvh.shapes[i] EXCEPT !.radius = NullRadius]
            ELSE bvh.shapes[i]]]

\* the values a query returns
Returned(r, fields) == [x \in fields |-> r[x]]

\* C24: a shape of triangles is built, ray-queried and closest-point-queried with
\* the same results whether it has a radius array or not
C24_TrianglesIgnoreRadius ==
    /\ phase = "built" =>
          \A sid \in 0 .. nshapes - 1 :
              shapes[sid].etype = yb_etype_triangle =>
                  yb_build_shape_bvh([shapes[sid] EXCEPT !.radius = NullRadius]).nodes
                      = shapes[sid].nodes
    /\ (out.op = "intersect" /\ ~out.fault) =>
          Returned(yb_intersect_scene_bvh(WithoutTriangleRadii(Scene), out.ray, CallerOut),
                   {"hit", "t", "sid", "eid", "euv"})
              = Returned(out, {"hit", "t", "sid", "eid", "euv"})
    /\ out.op = "neighbour" =>
          Returned(yb_neighbour_scene_bvh(WithoutTriangleRadii(Scene), out.pt, out.max_dist,
                                          out.req_sid, CallerOut),
                   {"hit", "dist", "sid", "eid", "euv"})
              = Returned(out, {"hit", "dist", "sid", "eid", "euv"})

(***************************************************************************)
(* The splits of the build                                                 *)
(***************************************************************************)
\* the first slot and the slot after the last of the range node ni was made for
RECURSIVE FirstSlot(_, _)
FirstSlot(nds, ni) ==
    IF nds[ni].isleaf THEN nds[ni].start ELSE FirstSlot(nds, nds[ni].start)

RECURSIVE EndSlot(_, _)
EndSlot(nds, ni) ==
    IF nds[ni].isleaf THEN nds[ni].start + nds[ni].count
    ELSE EndSlot(nds, nds[ni].start + 1)

\* *axis and *mid are as claimed for the range [start, end) under the heuristic
GoodSplit(axis, mid, start, end, h) ==
    /\ axis \in {0, 1, 2}
    /\ start < mid /\ mid < end
    /\ h # yb_htype_equalnum => (start + 2 <= mid /\ mid <= end - 2)

\* every internal node of the tree stands for a range of more than
\* YB__BVH_MINPRIMS records that was split well
SplitsWell(nds, h) ==
    \A ni \in DOMAIN nds :
        ~nds[ni].isleaf =>
            /\ EndSlot(nds, ni) - FirstSlot(nds, ni) > YB__BVH_MINPRIMS
            /\ EndSlot(nds, nds[ni].start) = FirstSlot(nds, nds[ni].start + 1)
            /\ GoodSplit(nds[ni].axis, FirstSlot(nds, nds[ni].start + 1),
                         FirstSlot(nds, ni), EndSlot(nds, ni), h)

\* the records yb_build_shape_bvh makes of the elements of a shape
ShapeBoundPrims(bvh) ==
    Array([i \in 0 .. bvh.nelems - 1 |-> BoundPrim(i, ElemBounds(bvh, i))])

\* yb__split_axis splits well every range of more than YB__BVH_MINPRIMS records of
\* the array, under both heuristics
SplitsEveryRange(arr, n) ==
    \A start \in 0 .. n, end \in 0 .. n, h \in {yb_htype_equalnum, yb_htype_sah} :
        end - start > YB__BVH_MINPRIMS =>
            LET Good(sp) == GoodSplit(sp.axis, sp.mid, start, end, h)
            IN  Good(yb__split_axis(arr, start, end, h))

\* C25: on every range of more than YB__BVH_MINPRIMS records of the shapes and of
\* the scene, under either heuristic, yb__split_axis gives an axis in {0, 1, 2} and
\* start < mid < end (start + 2 <= mid <= end - 2 for SAH); the build ends, and in
\* the trees it leaves every internal node has two non-empty ranges split so
C25_SplitInsideRange ==
    phase = "built" =>
        /\ SplitsWell(nodes, heuristic)
        /\ \A sid \in 0 .. nshapes - 1 : SplitsWell(shapes[sid].nodes, shapes[sid].heuristic)
        /\ pc = 0 =>
              /\ SplitsEveryRange(SceneBoundPrims(shapes), nshapes)
              /\ \A sid \in 0 .. nshapes - 1 :
                    SplitsEveryRange(ShapeBoundPrims(shapes[sid]), shapes[sid].nelems)

\* a built scene of five shapes, so with an internal root, that holds a shape of
\* ten points split by object median and one of seven triangles split by SAH
C25_Witness ==
    /\ phase = "built"
    /\ nshapes = 5
    /\ ~nodes[0].isleaf
    /\ \E sid \in 0 .. nshapes - 1 :
          shapes[sid].heuristic = yb_htype_equalnum /\ Size(shapes[sid].nodes) = 7
    /\ \E sid \in 0 .. nshapes - 1 :
          shapes[sid].heuristic = yb_htype_sah /\ ~shapes[sid].nodes[0].isleaf

(***************************************************************************)
(* Builds of scenes of any size, the scene without shapes among them, and  *)
(* a second build of a scene that is built                                 *)
(***************************************************************************)
\* largest number of shapes of these scenes
MaxBuildShapes == 5

InitBuilds ==
    \E n \in 0 .. MaxBuildShapes, a \in 0 .. Len(Meshes) - 1, b \in 0 .. 1,
       c \in 0 .. Len(Xforms) - 1, d \in 0 .. 1 :
        InitScene(SceneData(n, a, b, c, d), SceneHeuristics[((a + c) % 3) + 1])

\* the tree yb_build_shape_bvh builds for a shape over the nodes old
ShapeTreeOver(old, bvh) ==
    Then(ShapeBoundPrims(bvh), LAMBDA bound_prims :
         BuildTree(old, bound_prims, bvh.nelems, bvh.heuristic))

\* yb_build_scene_bvh writes a node outside the node array of a shape or of the scene
WritesOutside ==
    \/ \E sid \in 0 .. nshapes - 1 : ShapeTreeOver(shapes[sid].nodes, shapes[sid]).wild
    \/ Then(BuiltShapes, LAMBDA sh :
            Then(SceneBoundPrims(sh), LAMBDA bound_prims :
                 BuildTree(nodes, bound_prims, nshapes, heuristic).wild))

\* yb_build_scene_bvh on a scene that is built: the shapes and the scene are built
\* again over the nodes they hold
Rebuild ==
    /\ phase = "built"
    /\ LET Store(sh, t) ==
               /\ shapes' = sh
               /\ nodes' = t.nodes
               /\ sorted_prim' = t.sorted_prim
           SceneTree(sh) ==
               Store(sh, BuildTree(nodes, SceneBoundPrims(sh), nshapes, heuristic))
       IN  SceneTree(BuiltShapes)
    /\ phase' = "rebuilt"
    /\ UNCHANGED <<app, nshapes, heuristic, xforms, inv_xforms, pc, out, aux>>

\* the write outside the node array stops the program (the other outcome is that
\* the build goes on: Build, Rebuild)
BuildTrap ==
    /\ phase \in {"setup", "built"}
    /\ \A i \in 0 .. nshapes - 1 : ~shapes[i].null
    /\ WritesOutside
    /\ phase' = "crashed"
    /\ UNCHANGED <<app, nshapes, heuristic, shapes, xforms, inv_xforms, nodes,
                   sorted_prim, pc, out, aux>>

NextBuilds ==
    \/ \E sid \in 0 .. nshapes - 1 : SetShape(sid)
    \/ Build
    \/ Rebuild
    \/ BuildTrap

SpecBuilds == InitBuilds /\ [][NextBuilds]_vars

(***************************************************************************)
(* Size of the node array                                                  *)
(***************************************************************************)
\* C26: a build over N primitives, N >= 0, writes only node slots below 2 N and
\* leaves at most 2 N nodes (shapes: N = nelems; scene: N = nshapes)
C26_NodesWithinTwoN ==
    phase \in {"built", "rebuilt"} =>
        /\ ~SceneTreeWith(heuristic).wild
        /\ Size(nodes) <= 2 * nshapes
        /\ \A sid \in 0 .. nshapes - 1 :
              /\ ~ShapeTreeOver(<<>>, shapes[sid]).wild
              /\ Size(shapes[sid].nodes) <= 2 * shapes[sid].nelems

(***************************************************************************)
(* Overlap queries on scenes whose tree has leaves at different depths     *)
(***************************************************************************)
\* largest number of shapes of these scenes
MaxOverlapShapes == 9

\* the meshes of these scenes: the small ones
OverlapMeshes == <<MeshTriangle, MeshTwoPoints, MeshLines>>

InitOverlaps ==
    \E a \in 0 .. Len(OverlapMeshes) - 1, b \in 0 .. 1, c \in 0 .. Len(Xforms) - 1,
       d \in 0 .. 1 :
        InitScene(SceneOf(OverlapMeshes, MaxOverlapShapes, a, b, c, d),
                  SceneHeuristics[((a + c) % 3) + 1])

\* yb_overlap_shape_bounds(bvh, exclude_self, ...) called on the scene, at any time
\* after the build
OverlapCall(exclude_self) ==
    /\ phase \in {"built", "refit"}
    /\ out' = [op |-> "overlap", exclude_self |-> exclude_self] @@
              yb_overlap_shape_bounds(Scene, exclude_self)
    /\ UNCHANGED <<app, phase, nshapes, heuristic, shapes, xforms, inv_xforms, nodes,
                   sorted_prim, pc, aux>>

NextOverlaps ==
    \/ \E sid \in 0 .. nshapes - 1 : SetShape(sid)
    \/ Build
    \/ \E k \in 0 .. Len(Xforms) - 1 : Refit(RefitData(k))
    \/ \E exclude_self \in BOOLEAN : OverlapCall(exclude_self)

SpecOverlaps == InitOverlaps /\ [][NextOverlaps]_vars

\* the pairs <<node1_idx, node2_idx>> the walking loop of yb_overlap_shape_bounds
\* pops, in the order it pops them
OverlapPops(bvh) ==
    While(LAMBDA s : s.w.stack = <<>>,
          LAMBDA s : [w |-> OverlapRound(bvh, FALSE, s.w),
                      seen |-> Append(s.seen, <<s.w.stack[Len(s.w.stack)],
                                                s.w.stack[Len(s.w.stack) - 1]>>)],
          [w |-> OverlapEnter, seen |-> <<>>],
          Size(bvh.nodes)).seen

\* how many times the pair v is popped
TimesPopped(pops, v) == Cardinality({k \in 1 .. Len(pops) : pops[k] = v})

\* the leaves of the scene tree
SceneLeaves(nds) == {i \in DOMAIN nds : nds[i].isleaf}

\* every ordered pair of leaves with overlapping bboxes is popped once, no pair of
\* leaves is popped twice, and the walk ends within a pop for every pair of nodes
PairsOnce(nds, pops) ==
    /\ \A l1 \in SceneLeaves(nds), l2 \in SceneLeaves(nds) :
          /\ yb__overlap_bbox(nds[l1].bbox, nds[l2].bbox) =>
                TimesPopped(pops, <<l1, l2>>) = 1
          /\ TimesPopped(pops, <<l1, l2>>) <= 1
    /\ Len(pops) <= Size(nds) * Size(nds)

\* C27: the walk of yb_overlap_shape_bounds over pairs of nodes ends, and every
\* ordered pair of scene leaves whose bboxes overlap is popped as a pair of leaves
\* exactly once (no pair of leaves is popped twice)
C27_LeafPairsOnce ==
    phase \in {"built", "refit"} => PairsOnce(nodes, OverlapPops(Scene))

\* an overlap query has run on a scene tree with a leaf next to an internal node, so
\* the walk opened an internal node against a leaf, and two different leaves overlap
C27_Witness ==
    /\ phase \in {"built", "refit"}
    /\ out.op = "overlap"
    /\ \E k \in 1 .. Len(OverlapPops(Scene)) :
          LET v == OverlapPops(Scene)[k]
          IN  nodes[v[1]].isleaf /\ ~nodes[v[2]].isleaf /\
              yb__overlap_bbox(nodes[v[1]].bbox, nodes[v[2]].bbox)
    /\ \E l1 \in SceneLeaves(nodes), l2 \in SceneLeaves(nodes) :
          l1 # l2 /\ yb__overlap_bbox(nodes[l1].bbox, nodes[l2].bbox)

(***************************************************************************)
(* The heap sort                                                           *)
(***************************************************************************)
\* the records at base .. base + count - 1 are in non-decreasing order of their
\* centers along axis
InCenterOrder(arr, base, count, axis) ==
    \A i \in base .. base + count - 2 :
        FLe(CenterAt(arr[i], axis), CenterAt(arr[i + 1], axis))

\* the range of b holds the records of the range of a, each as many times, whole
\* (pid, bbox and center together), and the rest of b is the rest of a
SameRecords(a, b, base, count) ==
    /\ DOMAIN b = DOMAIN a
    /\ \A i \in base .. base + count - 1 :
          Cardinality({j \in base .. base + count - 1 : b[j] = a[i]}) =
          Cardinality({j \in base .. base + count - 1 : a[j] = a[i]})
    /\ \A i \in DOMAIN a \ (base .. base + count - 1) : b[i] = a[i]

\* yb__sort_bound_prim sorts every range of the n records of arr along every axis
SortsEveryRange(arr, n) ==
    \A base \in 0 .. n, axis \in 0 .. 2 :
        \A count \in 0 .. n - base :
            LET Good(sorted) == /\ InCenterOrder(sorted, base, count, axis)
                                /\ SameRecords(arr, sorted, base, count)
            IN  Good(yb__sort_bound_prim(arr, base, count, axis))

\* C28: yb__heapsort_bound_prim leaves the range it is given in non-decreasing
\* order of the centers along the axis, as a permutation of the records it held
\* (pid and bbox travel with the record), and leaves the records outside the range
\* as they were; checked on the records of every shape and of the scene
C28_HeapsortSorts ==
    phase = "built" =>
        /\ SortsEveryRange(SceneBoundPrims(shapes), nshapes)
        /\ \A sid \in 0 .. nshapes - 1 :
              SortsEveryRange(ShapeBoundPrims(shapes[sid]), shapes[sid].nelems)

\* a built shape whose records are out of order along an axis on which two of them
\* have the same center, and a scene of five shapes
C28_Witness ==
    /\ phase = "built"
    /\ nshapes = 5
    /\ \E sid \in 0 .. nshapes - 1, axis \in 0 .. 2 :
          LET arr == ShapeBoundPrims(shapes[sid])
          IN  /\ shapes[sid].nelems >= 7
              /\ ~InCenterOrder(arr, 0, shapes[sid].nelems, axis)
              /\ \E i, j \in DOMAIN arr :
                    i # j /\ CenterAt(arr[i], axis) = CenterAt(arr[j], axis)

(***************************************************************************)
(* A second build                                                          *)
(***************************************************************************)
\* the same nodes: start, count, isleaf and bbox of every node, axis of the
\* internal ones
SameTree(a, b) ==
    /\ DOMAIN a = DOMAIN b
    /\ \A i \in DOMAIN a :
          /\ a[i].start = b[i].start /\ a[i].count = b[i].count
          /\ a[i].isleaf = b[i].isleaf /\ a[i].bbox = b[i].bbox
          /\ ~a[i].isleaf => a[i].axis = b[i].axis

\* C29: yb_build_scene_bvh on a scene that is built (same shapes, same transforms)
\* leaves sorted_prim and the nodes (start, count, isleaf, bbox; axis of internal
\* nodes) of the scene and of every shape as the first build made them, and those
\* are what a build from no nodes at all gives
C29_BuildIsDeterministic ==
    [][(phase = "built" /\ phase' = "rebuilt") =>
          /\ sorted_prim' = sorted_prim
          /\ SameTree(nodes', nodes)
          /\ SameTree(nodes', SceneTreeWith(heuristic).nodes)
          /\ \A sid \in 0 .. nshapes - 1 :
                /\ shapes'[sid].sorted_prim = shapes[sid].sorted_prim
                /\ SameTree(shapes'[sid].nodes, shapes[sid].nodes)
                /\ SameTree(shapes'[sid].nodes, ShapeTreeOver(<<>>, shapes[sid]).nodes)]_vars

\* a scene of five shapes built twice: its root is internal, and so is the root of
\* a shape split by object median and of one split by SAH
C29_Witness ==
    /\ phase = "rebuilt"
    /\ nshapes = 5
    /\ ~nodes[0].isleaf
    /\ \E sid \in 0 .. nshapes - 1 :
          shapes[sid].heuristic = yb_htype_equalnum /\ ~shapes[sid].nodes[0].isleaf
    /\ \E sid \in 0 .. nshapes - 1 :
          shapes[sid].heuristic = yb_htype_sah /\ ~shapes[sid].nodes[0].isleaf

(***************************************************************************)
(* The node stack of the walks                                             *)
(***************************************************************************)
\* the node stack of yb__intersect_bvh on bvh with the ray: at the entry of the
\* walking loop and after each of its rounds
IntersectStacks(bvh, early_exit, ray) ==
    While(LAMBDA s : IntersectDone(early_exit, s.w),
          LAMBDA s : LET Next_(w) == [w |-> w, stacks |-> Append(s.stacks, w.stack)]
                     IN  Next_(IntersectRound(bvh, early_exit, ray, s.w)),
          [w |-> IntersectEnter(ray, CallerOut), stacks |-> <<<<0>>>>],
          Size(bvh.nodes)).stacks

\* the node stack of yb__neighbour_bvh on bvh from pt, likewise
NeighbourStacks(bvh, pt, max_dist) ==
    While(LAMBDA s : NeighbourDone(FALSE, s.w),
          LAMBDA s : LET Next_(w) == [w |-> w, stacks |-> Append(s.stacks, w.stack)]
                     IN  Next_(NeighbourRound(bvh, FALSE, pt, s.w)),
          [w |-> NeighbourEnter(max_dist, CallerOut), stacks |-> <<<<0>>>>],
          Size(bvh.nodes)).stacks

\* how many times node ni is pushed: a round pops the top and pushes what the next
\* stack holds above the rest (most: the most entries a stack is looked at for)
TimesPushed(stacks, ni, most) ==
    (IF ni = 0 THEN 1 ELSE 0) +
    Cardinality({<<k, i>> \in (1 .. Len(stacks) - 1) \X (1 .. most) :
                    /\ i >= Len(stacks[k]) /\ i <= Len(stacks[k + 1])
                    /\ stacks[k + 1][i] = ni})

\* height of the tree below node ni (a leaf has height 0)
RECURSIVE Height(_, _)
Height(nds, ni) ==
    IF nds[ni].isleaf THEN 0
    ELSE LET Taller(a, b) == IF a >= b THEN a ELSE b
         IN  1 + Taller(Height(nds, nds[ni].start), Height(nds, nds[ni].start + 1))

\* every node is pushed at most once, the stack never holds more than height + 1
\* entries (so fewer than 64), and the walk ends within a round for every node
StackBounded(nds, stacks) ==
    /\ \A ni \in DOMAIN nds : TimesPushed(stacks, ni, Size(nds) + 1) <= 1
    /\ \A k \in 1 .. Len(stacks) :
          Len(stacks[k]) <= Height(nds, 0) + 1 /\ Len(stacks[k]) < 64
    /\ Len(stacks) <= Size(nds) + 1
    /\ stacks[Len(stacks)] = <<>> \/ Len(stacks) <= Size(nds)

\* C30: in the walks of a ray query and of a closest-point query, of the scene and
\* of every shape, every node is pushed at most once and the node stack never holds
\* more than (tree height + 1) entries; the walk ends and assert(node_cur < 64)
\* holds
C30_StackWithinHeight ==
    /\ (phase \in {"built", "refit"} /\ out.op \in {"intersect", "hit"}) =>
          /\ StackBounded(nodes, IntersectStacks(Scene, out.op = "hit", out.ray))
          /\ \A sid \in 0 .. nshapes - 1 :
                StackBounded(shapes[sid].nodes,
                             IntersectStacks(shapes[sid], out.op = "hit",
                                             LocalRay(out.ray, sid)))
    /\ (phase \in {"built", "refit"} /\ out.op = "neighbour") =>
          /\ StackBounded(nodes, NeighbourStacks(Scene, out.pt, out.max_dist))
          /\ \A sid \in 0 .. nshapes - 1 :
                StackBounded(shapes[sid].nodes,
                             NeighbourStacks(shapes[sid],
                                             ym_transform_point(inv_xforms[sid], out.pt),
                                             out.max_dist))

\* a closest-hit query whose walk of a shape of height 2 filled the stack to three
\* entries, on a scene with an internal root
C30_Witness ==
    /\ phase \in {"built", "refit"}
    /\ out.op = "intersect"
    /\ ~nodes[0].isleaf
    /\ \E sid \in 0 .. nshapes - 1 :
          /\ Height(shapes[sid].nodes, 0) = 2
          /\ \E k \in 1 .. Len(IntersectStacks(shapes[sid], FALSE, LocalRay(out.ray, sid))) :
                Len(IntersectStacks(shapes[sid], FALSE, LocalRay(out.ray, sid))[k]) = 3

=============================================================================
